---- MODULE Spec2Model ----
(***************************************************************************)
(* Model of the tag-propagation app: the bounded-concurrency pool          *)
(* (promisePool, src/src/locations/Sidebar.tsx and src/unnamed/part_000),  *)
(* the breadth-first crawl (traverseDescendants, Sidebar.tsx), the root    *)
(* page lookup (findRootPagesForLocation, Sidebar.tsx), the tag resolution *)
(* (getAllTagsByName, resolveTargetTagIds, Sidebar.tsx), the link          *)
(* extraction (deepExtractLinks, Sidebar.tsx) and the dialog's onApply     *)
(* (part_000).                                                             *)
(*                                                                         *)
(* JavaScript runs one continuation at a time: everything between two      *)
(* awaits is one atomic step.  An action of this model is one such step:   *)
(* the synchronous start of an operation, or the resumption of one async   *)
(* function after the promise it awaits has settled.  The order in which   *)
(* pending repository requests settle is chosen by the environment.        *)
(***************************************************************************)
EXTENDS Integers, Sequences, FiniteSets, TLC

VARIABLES
    \* ---- promisePool
    pItems,      \* items: the list handed to the pool
    pConc,       \* concurrency: the requested number of runners
    idx,         \* the shared cursor `idx`
    runners,     \* one record per runner: [st, myIdx]
    pResults,    \* the `results` array: <<>> is a hole, <<v>> a stored value
    pState,      \* the promise returned by promisePool: idle/pending/resolved/rejected
    pCalls,      \* history: how many times worker was invoked per item index
    pFailed      \* history: the item indices whose worker call rejected

poolVars == <<pItems, pConc, idx, runners, pResults, pState, pCalls, pFailed>>

VARIABLES
    \* ---- traverseDescendants
    config,          \* the InstallConfig fields the crawl reads
    rootEntryIds,    \* the root list handed to the crawl
    targetTagIds,    \* the target tag ids handed to the crawl
    visitedEntries,  \* Set<string>
    visitedAssets,   \* Set<string>, kept in insertion order
    entryRows,       \* Map<string, EntryScanRow>, kept in insertion order
    assetRows,       \* Map<string, AssetScanRow>, kept in insertion order
    queue,           \* QItem[]: [id, depth] and, as history, the record it was linked from
    batch,           \* the wave in flight: the QItems of the batch and where each stands
    cState,          \* idle / wave / assets / done / failed
    procDepth,       \* history: the `depth` with which each record was marked visited
    fetchCount,      \* history: the number of entry.get / asset.get calls per id
    expanded,        \* history: the records whose links were extracted
    assetFrom,       \* history: <<asset id, record id>> for every visitedAssets.add
    fetchFailed      \* history: the ids whose fetch rejected

crawlVars == <<config, rootEntryIds, targetTagIds, visitedEntries, visitedAssets,
               entryRows, assetRows, queue, batch, cState, procDepth, fetchCount,
               expanded, assetFrom, fetchFailed>>

VARIABLES
    \* ---- the dialog's onApply
    targetIds,            \* p.targetTagIds
    preservePublishState, \* the switch, as onApply reads it
    selectedContentIds,   \* the selection onApply reads
    selectedMediaIds,
    isApplying,
    applyStatus,          \* [phase, n, of]: the progress text
    applyError,
    applyDone,
    applySummary,         \* <<>> is null, <<summary>> a stored summary
    actionableContentIds, \* locals of the running onApply
    actionableMediaIds,
    summary,
    processed,            \* entryProcessed / assetProcessed
    aState,               \* where onApply stands: idle / content / media / notifying / returned
    work,                 \* per runner: where its worker call stands and the document in hand
    store,                \* the repository: per id [tags, version, publishedVersion]
    calls,                \* history: per id the repository calls issued, in order
    failures,             \* history: the number of repository calls that rejected
    statusLog             \* history: the phases handed to setApplyStatus, in order

applyVars == <<targetIds, preservePublishState, selectedContentIds, selectedMediaIds,
               isApplying, applyStatus, applyError, applyDone, applySummary,
               actionableContentIds, actionableMediaIds, summary, processed, aState,
               work, store, calls, failures, statusLog>>

VARIABLES
    \* ---- resolveTargetTagIds / getAllTagsByName
    tagListing,    \* the number of tags of the space: tag.getMany lists TagAt(1..n)
    tagNameCache,  \* tagNameCache.current: <<>> is null, <<map>> a loaded name-to-id map
    rMode,         \* tagMatchMode of the current call
    rInput,        \* tagNamesOrIds of the current call
    rState,        \* idle / listing / returned / failed
    rSkip,         \* getAllTagsByName: skip
    rByName,       \* getAllTagsByName: byName
    rResult,       \* the returned { tagIds, missing }
    rCalls,        \* history: the number of resolveTargetTagIds calls
    listRequests,  \* history: the number of tag.getMany requests issued
    tagsCreated    \* history: per tag created after the load, the value of rCalls then

tagVars == <<tagListing, tagNameCache, rMode, rInput, rState, rSkip, rByName, rResult,
             rCalls, listRequests, tagsCreated>>

VARIABLES
    \* ---- findRootPagesForLocation
    rootConfig,      \* config.rootContentTypes and config.locationLinkFieldIds
    repo,            \* the space, per (content type, field) queried so far: the number
                     \* of records linking the location through it, or NoField
    ctAt,            \* the position of the outer loop in rootContentTypes
    fieldAt,         \* the position of the inner loop in locationLinkFieldIds
    qSkip,           \* skip
    foundRootIds,    \* the Set rootEntryIds, in insertion order
    ctRootIds,       \* the Set ctRootIds, in insertion order
    perContentType,
    fState,          \* idle / querying / returned / failed
    queries,         \* history: the entry.getMany requests issued: [ct, field, skip]
    rejections       \* history: the requests that rejected: [ct, field, msg]

rootVars == <<rootConfig, repo, ctAt, fieldAt, qSkip, foundRootIds, ctRootIds,
              perContentType, fState, queries, rejections>>

VARIABLE
    abandoned   \* history: the component that started the running crawl or apply
                \* has been torn down

VARIABLE
    edits       \* history: the number of changes other editors have made to the
                \* stored items since the dialog opened

VARIABLES
    \* ---- deepExtractLinks
    xValue,   \* the value handed to deepExtractLinks: <<>> before the call, <<value>> after
    xOut,     \* out, as the call leaves it
    xHeap,    \* the arrays and objects the value refers to, by address
    xThrown   \* the call has thrown a RangeError

extractVars == <<xValue, xOut, xHeap, xThrown>>

vars == <<poolVars, crawlVars, applyVars, tagVars, rootVars, abandoned, edits, extractVars>>

\* ------------------------------------------------------------------ bounds

MaxItems == 3
MaxConc == 2
MaxFailures == 2

\* ------------------------------------------------------------------ helpers

Max(a, b) == IF a >= b THEN a ELSE b

Range(s) == {s[i] : i \in 1..Len(s)}

\* ------------------------------------------------------------------ promisePool

\* Math.max(1, concurrency): the length of the runners array.
OneRunnerMore(concurrency) == Max(1, concurrency) + 1
RunnerCount(concurrency) == Max(1, concurrency)

\* `idx++` after a successful `idx < items.length` test.
NextIdxStuck(i, n) == i
NextIdx(i, n) == IF i < n THEN i + 1 ELSE i

\* One pass of a runner through the loop head: it either claims index i and
\* suspends on `await worker(items[myIdx])`, or leaves the loop and resolves.
ClaimOrFinish(i, n) ==
    IF i < n THEN [st |-> "awaiting", myIdx |-> i]
             ELSE [st |-> "done", myIdx |-> -1]

\* new Array(k).fill(0).map(async () => ...): the k runners are started one
\* after the other, each running synchronously up to its first await.
RECURSIVE StartRunners(_, _, _, _)
StartRunners(k, i, n, acc) ==
    IF Len(acc) >= k THEN [rs |-> acc, idx |-> i]
    ELSE StartRunners(k, NextIdx(i, n), n, Append(acc, ClaimOrFinish(i, n)))

\* The number of runners of rs that hold index i.
Holders(rs, i) == Cardinality({j \in 1..Len(rs) : rs[j].st = "awaiting" /\ rs[j].myIdx = i})

\* The synchronous part of a promisePool(items, concurrency, worker) call.
PoolBegin(items, concurrency) ==
    LET n == Len(items)
        started == StartRunners(RunnerCount(concurrency), 0, n, <<>>)
    IN  /\ pItems' = items
        /\ pConc' = concurrency
        /\ idx' = started.idx
        /\ runners' = started.rs
        /\ pResults' = [i \in 0..(n - 1) |-> <<>>]
        /\ pCalls' = [i \in 0..(n - 1) |-> Holders(started.rs, i)]
        /\ pFailed' = {}
        /\ pState' = "pending"

\* Runner r resumes after its worker call settled.  ok = FALSE: the await
\* throws and the runner's promise rejects.  ok = TRUE: the value is stored at
\* results[myIdx] and the runner goes round the loop once more.
RunnerResume(r, ok, value) ==
    LET n == Len(pItems)
        me == runners[r]
        nxt == ClaimOrFinish(idx, n)
    IN  /\ pState # "idle"
        /\ me.st = "awaiting"
        /\ IF ok
           THEN /\ pResults' = [pResults EXCEPT ![me.myIdx] = <<value>>]
                /\ runners' = [runners EXCEPT ![r] = nxt]
                /\ idx' = NextIdx(idx, n)
                /\ pCalls' = IF nxt.st = "awaiting"
                             THEN [pCalls EXCEPT ![nxt.myIdx] = @ + 1]
                             ELSE pCalls
                /\ pFailed' = pFailed
           ELSE /\ runners' = [runners EXCEPT ![r] = [st |-> "rejected", myIdx |-> me.myIdx]]
                /\ pFailed' = pFailed \cup {me.myIdx}
                /\ UNCHANGED <<pResults, idx, pCalls>>
        /\ UNCHANGED <<pItems, pConc, pState>>

\* await Promise.all(runners): rejects as soon as one runner has rejected,
\* resolves once every runner has resolved.
PoolNeverSettles == "pending"
PoolSettlesAtOnce == "resolved"
PoolSettled ==
    IF \E j \in 1..Len(runners) : runners[j].st = "rejected" THEN "rejected"
    ELSE IF \A j \in 1..Len(runners) : runners[j].st = "done" THEN "resolved"
    ELSE "pending"

PoolSettle ==
    /\ pState = "pending"
    /\ PoolSettled # "pending"
    /\ pState' = PoolSettled
    /\ UNCHANGED <<pItems, pConc, idx, runners, pResults, pCalls, pFailed>>
    /\ UNCHANGED <<crawlVars, applyVars, tagVars, rootVars, abandoned, edits, extractVars>>

PoolIdle ==
    /\ pItems = <<>>
    /\ pConc = 0
    /\ idx = 0
    /\ runners = <<>>
    /\ pResults = <<>>
    /\ pState = "idle"
    /\ pCalls = <<>>
    /\ pFailed = {}

\* ------------------------------------------------------------------ values

\* A JSON value as the repository returns it.  kind is one of "undefined",
\* "null", "str", "arr", "obj"; an object lists its keys in insertion order
\* (keys[i] holds kids[i]), an array its elements in kids.
Undefined == [kind |-> "undefined", s |-> "", keys |-> <<>>, kids |-> <<>>]
Null == [kind |-> "null", s |-> "", keys |-> <<>>, kids |-> <<>>]
Str(x) == [kind |-> "str", s |-> x, keys |-> <<>>, kids |-> <<>>]
Arr(elems) == [kind |-> "arr", s |-> "", keys |-> <<>>, kids |-> elems]
Obj(ks, vs) == [kind |-> "obj", s |-> "", keys |-> ks, kids |-> vs]
Num(n) == [kind |-> "num", s |-> ToString(n), keys |-> <<>>, kids |-> <<>>]

\* value?.[k]: the property k of an object, undefined for anything else.
Get(v, k) ==
    IF v.kind = "obj" /\ \E i \in 1..Len(v.keys) : v.keys[i] = k
    THEN v.kids[CHOOSE i \in 1..Len(v.keys) : v.keys[i] = k]
    ELSE Undefined

\* JavaScript truthiness of a value.
Truthy(v) ==
    CASE v.kind = "undefined" -> FALSE
      [] v.kind = "null" -> FALSE
      [] v.kind = "str" -> v.s # ""
      [] v.kind = "num" -> v.s # "0"
      [] OTHER -> TRUE

EntryLink(id) ==
    Obj(<<"sys">>, <<Obj(<<"type", "linkType", "id">>, <<Str("Link"), Str("Entry"), Str(id)>>)>>)

AssetLink(id) ==
    Obj(<<"sys">>, <<Obj(<<"type", "linkType", "id">>, <<Str("Link"), Str("Asset"), Str(id)>>)>>)

IsLinkOf(value, linkType) ==
    LET sys == Get(value, "sys")
    IN  /\ Get(sys, "type") = Str("Link")
        /\ Get(sys, "linkType") = Str(linkType)
        /\ Truthy(Get(sys, "id"))

AnySysId(value) == Truthy(Get(Get(value, "sys"), "id"))
isEntryLink(value) == IsLinkOf(value, "Entry")

isAssetLink(value) == IsLinkOf(value, "Asset")

\* Set.add on a Set kept in insertion order.
SetAddAgain(set, x) == Append(set, x)
SetAdd(set, x) == IF x \in Range(set) THEN set ELSE Append(set, x)

RECURSIVE SetAddAll(_, _)
SetAddAll(set, xs) ==
    IF xs = <<>> THEN set ELSE SetAddAll(SetAdd(set, Head(xs)), Tail(xs))

NoLinks == [entryIds |-> <<>>, assetIds |-> <<>>]

\* deepExtractLinks(value, out): returns out after the walk.
RECURSIVE deepExtractLinks(_, _)
RECURSIVE ExtractEach(_, _)
ExtractEach(values, out) ==
    IF values = <<>> THEN out
    ELSE ExtractEach(Tail(values), deepExtractLinks(Head(values), out))

deepExtractLinks(value, out) ==
    IF ~Truthy(value) THEN out
    ELSE IF isEntryLink(value)
         THEN [out EXCEPT !.entryIds = SetAdd(@, Get(Get(value, "sys"), "id").s)]
    ELSE IF isAssetLink(value)
         THEN [out EXCEPT !.assetIds = SetAdd(@, Get(Get(value, "sys"), "id").s)]
    ELSE IF value.kind \in {"arr", "obj"} THEN ExtractEach(value.kids, out)
    ELSE out

\* ---- deepExtractLinks on its own

MaxNest == 2

\* A link to a tag, an entry link without an id, an entry link that carries
\* a further link beside its sys, and a resolved entry whose fields hold a link.
TagLink(id) ==
    Obj(<<"sys">>, <<Obj(<<"type", "linkType", "id">>, <<Str("Link"), Str("Tag"), Str(id)>>)>>)

LinkWith(id, inner) ==
    Obj(<<"sys", "data">>,
        <<Obj(<<"type", "linkType", "id">>, <<Str("Link"), Str("Entry"), Str(id)>>), inner>>)

Resolved(id, inner) ==
    Obj(<<"sys", "fields">>,
        <<Obj(<<"type", "id">>, <<Str("Entry"), Str(id)>>), Obj(<<"ref">>, <<inner>>)>>)

Leaves ==
    {Undefined, Null, Str(""), Str("E1"), Num(0), Num(7), Arr(<<>>), Obj(<<>>, <<>>),
     EntryLink("E1"), EntryLink("E2"), AssetLink("M1"), AssetLink("E1"), EntryLink(""),
     TagLink("T1"), LinkWith("E2", AssetLink("M2")), Resolved("E3", EntryLink("E1"))}

\* The values nested up to n levels around a leaf.
RECURSIVE ValuesUpTo(_)
ValuesUpTo(n) ==
    IF n = 0 THEN Leaves
    ELSE LET V == ValuesUpTo(n - 1)
             PairLeaves == {EntryLink("E1"), AssetLink("M1"), Str("x")}
         IN  V \cup {Arr(<<a>>) : a \in V}
               \cup {Obj(<<"content">>, <<a>>) : a \in V}
               \cup {Arr(<<a, b>>) : a \in V, b \in PairLeaves}
               \cup {Obj(<<"data", "target">>, <<b, a>>) : a \in V, b \in PairLeaves}

ExtractIdle ==
    /\ xValue = <<>>
    /\ xOut = NoLinks
    /\ xHeap = <<>>
    /\ xThrown = FALSE

\* const out = { entryIds: new Set(), assetIds: new Set() };
\* deepExtractLinks(value, out)
ExtractCall ==
    /\ xValue = <<>>
    /\ \E value \in ValuesUpTo(MaxNest) :
        /\ xValue' = <<value>>
        /\ xOut' = deepExtractLinks(value, NoLinks)
    /\ UNCHANGED <<xHeap, xThrown>>
    /\ UNCHANGED <<poolVars, crawlVars, applyVars, tagVars, rootVars, abandoned, edits>>

\* ---- deepExtractLinks on values that share or repeat their parts

MaxCells == 2
StackLimit == 6

\* A reference to the array or object stored at an address.  Scalars and
\* links are held in place; an array or object may be referred to from
\* several places, itself included.
Ref(a) == [kind |-> "ref", s |-> "", keys |-> <<>>, kids |-> <<a>>]

Deref(heap, v) == IF v.kind = "ref" THEN heap[v.kids[1]] ELSE v

\* deepExtractLinks(value, out) as the engine runs it: one stack frame per
\* nested call, a RangeError once the frames exceed the stack.  res holds
\* out and whether the call has thrown.
RECURSIVE deepExtractLinksOn(_, _, _, _)
RECURSIVE ExtractEachOn(_, _, _, _)
ExtractEachOn(heap, values, res, depth) ==
    IF values = <<>> \/ res.thrown THEN res
    ELSE ExtractEachOn(heap, Tail(values),
                       deepExtractLinksOn(heap, Head(values), res, depth), depth)

deepExtractLinksOn(heap, v, res, depth) ==
    IF depth > StackLimit THEN [res EXCEPT !.thrown = TRUE]
    ELSE LET value == Deref(heap, v)
         IN  IF ~Truthy(value) THEN res
             ELSE IF isEntryLink(value)
                  THEN [res EXCEPT !.out.entryIds = SetAdd(@, Get(Get(value, "sys"), "id").s)]
             ELSE IF isAssetLink(value)
                  THEN [res EXCEPT !.out.assetIds = SetAdd(@, Get(Get(value, "sys"), "id").s)]
             ELSE IF value.kind \in {"arr", "obj"}
                  THEN ExtractEachOn(heap, value.kids, res, depth + 1)
             ELSE res

\* The heaps of up to MaxCells arrays and objects, each holding references
\* to arrays and objects of the heap and links.
Heaps ==
    LET Kids(n) == {Ref(a) : a \in 1..n} \cup {EntryLink("E1"), AssetLink("M1")}
        Cells(n) == {Arr(<<a, b>>) : a \in Kids(n), b \in Kids(n)}
                      \cup {Obj(<<"next">>, <<a>>) : a \in Kids(n)}
    IN  UNION {[1..n -> Cells(n)] : n \in 1..MaxCells}

\* deepExtractLinks(value, out) with the array or object at address 1 as value.
SharedCall ==
    /\ xValue = <<>>
    /\ \E heap \in Heaps :
        LET res == deepExtractLinksOn(heap, Ref(1), [out |-> NoLinks, thrown |-> FALSE], 1)
        IN  /\ xValue' = <<Ref(1)>>
            /\ xHeap' = heap
            /\ xOut' = res.out
            /\ xThrown' = res.thrown
    /\ UNCHANGED <<poolVars, crawlVars, applyVars, tagVars, rootVars, abandoned, edits>>

\* getLocalizedFieldValue(field, locale)
getLocalizedFieldValue(field, locale) ==
    IF field.kind \notin {"arr", "obj"} THEN Undefined
    ELSE IF Get(field, locale) # Undefined THEN Get(field, locale)
    ELSE IF Len(field.kids) > 0 THEN field.kids[1]
    ELSE Undefined

\* getTagIdsFromMetadata(entity): the ids of the tag links, those without a
\* usable id (modelled as "") dropped.
getTagIdsFromMetadata(entity) == SelectSeq(entity.tags, LAMBDA id : id # "")

\* ------------------------------------------------------------------ the repository

Locale == "en"

Localized(v) == Obj(<<Locale>>, <<v>>)

\* A rich-text document embedding one entry and one asset.
RichText(entryId, assetId) ==
    Obj(<<"nodeType", "content">>,
        <<Str("document"),
          Arr(<<Obj(<<"nodeType", "data">>,
                    <<Str("embedded-entry-block"), Obj(<<"target">>, <<EntryLink(entryId)>>)>>),
                Obj(<<"nodeType", "data">>,
                    <<Str("embedded-asset-block"), Obj(<<"target">>, <<AssetLink(assetId)>>)>>),
                Obj(<<"nodeType", "value">>, <<Str("text"), Str("hello")>>)>>)>>)

Entity(ct, tags, fieldIds, fieldValues) ==
    [ct |-> ct, tags |-> tags, fields |-> Obj(fieldIds, fieldValues)]

\* The entries of the space.  A and C serve as roots.  F is linked from E
\* and from C; A, E, F and H form a cycle; F links to itself; G and M2 are
\* linked only from the Location entry B, which C links to; E's only locale
\* is not the default one; M1 is linked from A, C and F.  R1 links to R2 (a
\* teaser) and to R3; R3 links to the asset M1; R4 and the asset M4 are
\* linked only from R2.
Entries ==
    [A |-> Entity("page", <<>>, <<"title", "body", "hero">>,
                  <<Localized(Str("Home")), Localized(RichText("E", "M1")),
                    Localized(AssetLink("M3"))>>),
     B |-> Entity("location", <<"t1">>, <<"tag", "ref", "img">>,
                  <<Localized(Str("Location: X")), Localized(EntryLink("G")),
                    Localized(AssetLink("M2"))>>),
     C |-> Entity("page", <<"t1">>, <<"related", "empty", "img", "venue">>,
                  <<Localized(Arr(<<EntryLink("F"), Null, EntryLink("F")>>)), Localized(Null),
                    Localized(Arr(<<AssetLink("M1")>>)), Localized(EntryLink("B"))>>),
     E |-> Entity("teaser", <<"t2", "", "t1">>, <<"target">>,
                  <<Obj(<<"de">>, <<EntryLink("F")>>)>>),
     F |-> Entity("article", <<"t2">>, <<"next", "img", "self", "count">>,
                  <<Localized(Arr(<<EntryLink("H"), EntryLink("F")>>)),
                    Localized(AssetLink("M1")), Localized(EntryLink("F")), Str("3")>>),
     G |-> Entity("page", <<>>, <<"img">>, <<Localized(AssetLink("M2"))>>),
     H |-> Entity("article", <<"t3">>, <<"back", "img">>,
                  <<Localized(EntryLink("A")), Localized(AssetLink("M3"))>>),
     R1 |-> Entity("page", <<>>, <<"first", "second">>,
                   <<Localized(EntryLink("R2")), Localized(EntryLink("R3"))>>),
     R2 |-> Entity("teaser", <<"t1">>, <<"more", "img">>,
                   <<Localized(EntryLink("R4")), Localized(AssetLink("M4"))>>),
     R3 |-> Entity("article", <<"t2">>, <<"img">>, <<Localized(AssetLink("M1"))>>),
     R4 |-> Entity("page", <<>>, <<"title">>, <<Localized(Str("Leaf"))>>)]

Assets ==
    [M1 |-> [tags |-> <<"t1">>],
     M2 |-> [tags |-> <<>>],
     M3 |-> [tags |-> <<"t2", "t1">>],
     M4 |-> [tags |-> <<>>]]

EntryIds == DOMAIN Entries

AssetIds == DOMAIN Assets

\* ------------------------------------------------------------------ traverseDescendants

MaxRoots == 3
MaxDepth == 2
MaxFetchFailures == 1

\* The `from` of a root QItem (history).
NoParent == "-"

\* config.excludedContentTypes.includes(ct) || ct === 'location'
isExcludedCt(cfg, ct) == ct \in Range(cfg.excludedContentTypes)

isLocationCt(ct) == ct = "location"

ExcludedIgnoringLocation(cfg, ct) == isExcludedCt(cfg, ct)
ExcludedOnlyLocation(cfg, ct) == isLocationCt(ct)
Excluded(cfg, ct) == isExcludedCt(cfg, ct) \/ isLocationCt(ct)

ExcludedReason(cfg, ct) ==
    IF isLocationCt(ct) THEN "location"
    ELSE IF isExcludedCt(cfg, ct) THEN "excludedContentType"
    ELSE "undefined"

\* targetTagIds.filter((t) => !existing.includes(t))
MissingAllTargets(target, existing) == target
MissingTagIds(target, existing) == SelectSeq(target, LAMBDA t : t \notin Range(existing))

\* depth >= config.maxTraversalDepth
DepthReachedStrict(depth, maxTraversalDepth) == depth > maxTraversalDepth
DepthReached(depth, maxTraversalDepth) == depth >= maxTraversalDepth

\* visitedEntries.has(id)
NeverVisited(visited, id) == FALSE
IsVisited(visited, id) == id \in visited

\* Map.set on a Map kept in insertion order, keyed by the row's id.
MapSet(rows, row) ==
    IF \E i \in 1..Len(rows) : rows[i].id = row.id
    THEN [i \in 1..Len(rows) |-> IF rows[i].id = row.id THEN row ELSE rows[i]]
    ELSE Append(rows, row)

RECURSIVE MapSetAll(_, _)
MapSetAll(rows, new) ==
    IF new = <<>> THEN rows ELSE MapSetAll(MapSet(rows, Head(new)), Tail(new))

\* The row traverseDescendants records for a fetched entry.
EntryRow(cfg, target, id, entry) ==
    LET ct == entry.ct
        excluded == Excluded(cfg, ct)
        existing == getTagIdsFromMetadata(entry)
    IN  [kind |-> "Entry", id |-> id, contentType |-> ct,
         excluded |-> excluded, excludedReason |-> ExcludedReason(cfg, ct),
         existingTagIds |-> existing,
         missingTagIds |-> IF excluded THEN <<>> ELSE MissingTagIds(target, existing)]

\* The row the asset worker returns for a fetched asset.
AssetRow(target, id, asset) ==
    LET existing == getTagIdsFromMetadata(asset)
    IN  [kind |-> "Asset", id |-> id, excluded |-> FALSE,
         existingTagIds |-> existing,
         missingTagIds |-> MissingTagIds(target, existing)]

\* for (const fieldId of Object.keys(fields)) deepExtractLinks(localized, out)
RECURSIVE ExtractFields(_, _)
ExtractFields(fieldValues, out) ==
    IF fieldValues = <<>> THEN out
    ELSE ExtractFields(Tail(fieldValues),
                       deepExtractLinks(getLocalizedFieldValue(Head(fieldValues), Locale), out))

EntryLinks(entry) == ExtractFields(entry.fields.kids, NoLinks)

\* What the field walk yields for each entry of the space.
LinkGraph == [id \in EntryIds |-> EntryLinks(Entries[id])]

\* batch.map(async ({id, depth}) => ...) up to each callback's first await:
\* an id already visited returns at once, any other is marked visited and
\* its fetch is issued.
RECURSIVE StartBatch(_, _, _)
StartBatch(items, visited, acc) ==
    IF items = <<>> THEN [batch |-> acc, visited |-> visited]
    ELSE LET it == Head(items)
         IN  IF IsVisited(visited, it.id)
             THEN StartBatch(Tail(items), visited,
                             Append(acc, [id |-> it.id, depth |-> it.depth,
                                          from |-> it.from, st |-> "skipped"]))
             ELSE StartBatch(Tail(items), visited \cup {it.id},
                             Append(acc, [id |-> it.id, depth |-> it.depth,
                                          from |-> it.from, st |-> "fetching"]))

Fetching(b, id) == {i \in 1..Len(b) : b[i].st = "fetching" /\ b[i].id = id}

\* queue.splice(0, n): the first n items leave the queue.
Sliced(q, n) == q
Spliced(q, n) == SubSeq(q, n + 1, Len(q))

\* The head of `while (queue.length)`, reached from the call and after each
\* wave: dispatch the next batch, or go on to the assets, or return.
CrawlProceed(cfg, q, visited) ==
    IF Len(q) > 0
    THEN LET k == Max(1, cfg.requestConcurrency)
             taken == SubSeq(q, 1, IF k < Len(q) THEN k ELSE Len(q))
             started == StartBatch(taken, visited, <<>>)
         IN  /\ queue' = Spliced(q, Len(taken))
             /\ batch' = started.batch
             /\ visitedEntries' = started.visited
             /\ procDepth' = [id \in EntryIds |->
                                IF Fetching(started.batch, id) # {}
                                THEN started.batch[CHOOSE i \in Fetching(started.batch, id) :
                                        \A j \in Fetching(started.batch, id) : j <= i].depth
                                ELSE procDepth[id]]
             /\ fetchCount' = [id \in DOMAIN fetchCount |->
                                fetchCount[id] + Cardinality(Fetching(started.batch, id))]
             /\ cState' = "wave"
             /\ UNCHANGED <<assetRows, poolVars>>
    ELSE /\ queue' = q
         /\ batch' = <<>>
         /\ visitedEntries' = visited
         /\ UNCHANGED <<procDepth>>
         /\ IF cfg.includeAssetsByDefault /\ Len(visitedAssets) > 0
            THEN /\ PoolBegin(visitedAssets, cfg.requestConcurrency)
                 /\ cState' = "assets"
                 /\ UNCHANGED <<assetRows, fetchCount>>
            ELSE /\ cState' = "done"
                 /\ UNCHANGED <<assetRows, fetchCount, poolVars>>

\* ---- the inputs of a crawl

RootCandidates == {"A", "C"}

RootLists == UNION {[1..n -> RootCandidates] : n \in 0..MaxRoots}

Configs ==
    [excludedContentTypes : {<<>>, <<"teaser">>},
     includeAssetsByDefault : BOOLEAN,
     maxTraversalDepth : 0..MaxDepth,
     requestConcurrency : 0..MaxConc]

TargetLists == {<<"t1">>, <<"t2", "t1">>}

CrawlIdle ==
    /\ config = [excludedContentTypes |-> <<>>, includeAssetsByDefault |-> FALSE,
                 maxTraversalDepth |-> 0, requestConcurrency |-> 0]
    /\ rootEntryIds = <<>>
    /\ targetTagIds = <<>>
    /\ visitedEntries = {}
    /\ visitedAssets = <<>>
    /\ entryRows = <<>>
    /\ assetRows = <<>>
    /\ queue = <<>>
    /\ batch = <<>>
    /\ cState = "idle"
    /\ procDepth = [id \in EntryIds |-> -1]
    /\ fetchCount = [id \in EntryIds |-> 0]
    /\ expanded = {}
    /\ assetFrom = {}
    /\ fetchFailed = {}

\* traverseDescendants(sdk, locale, config, rootEntryIds, targetTagIds) up to
\* its first await.
CrawlCall ==
    /\ cState = "idle"
    /\ \E cfg \in Configs, roots \in RootLists, target \in TargetLists :
        /\ config' = cfg
        /\ rootEntryIds' = roots
        /\ targetTagIds' = target
        /\ CrawlProceed(cfg,
                        [i \in 1..Len(roots) |-> [id |-> roots[i], depth |-> 0, from |-> NoParent]],
                        {})
    /\ UNCHANGED <<visitedAssets, entryRows, expanded, assetFrom, fetchFailed>>
    /\ UNCHANGED <<applyVars, tagVars, rootVars, abandoned, edits, extractVars>>

\* The callback of batch item i resumes with the fetched entry: the row is
\* recorded and, unless the record is a boundary, its links are extracted,
\* the unvisited record links pushed and the asset links collected.
EntryFetched(i) ==
    /\ cState \in {"wave", "failed"}
    /\ batch[i].st = "fetching"
    /\ LET it == batch[i]
           entry == Entries[it.id]
           row == EntryRow(config, targetTagIds, it.id, entry)
           expand == ~row.excluded /\ ~DepthReached(it.depth, config.maxTraversalDepth)
           out == IF expand THEN LinkGraph[it.id] ELSE NoLinks
           next == SelectSeq(out.entryIds, LAMBDA n : ~IsVisited(visitedEntries, n))
           assets == IF config.includeAssetsByDefault THEN out.assetIds ELSE <<>>
       IN  /\ entryRows' = MapSet(entryRows, row)
           /\ queue' = queue \o [j \in 1..Len(next) |->
                                    [id |-> next[j], depth |-> it.depth + 1, from |-> it.id]]
           /\ visitedAssets' = SetAddAll(visitedAssets, assets)
           /\ expanded' = IF expand THEN expanded \cup {it.id} ELSE expanded
           /\ assetFrom' = assetFrom \cup {<<assets[j], it.id>> : j \in 1..Len(assets)}
           /\ batch' = [batch EXCEPT ![i].st = "done"]
    /\ UNCHANGED <<config, rootEntryIds, targetTagIds, visitedEntries, assetRows, cState,
                   procDepth, fetchCount, fetchFailed, poolVars>>
    /\ UNCHANGED <<applyVars, tagVars, rootVars, abandoned, edits, extractVars>>

\* sdk.cma.entry.get rejects for batch item i: its callback throws.
EntryFetchFails(i) ==
    /\ cState \in {"wave", "failed"}
    /\ batch[i].st = "fetching"
    /\ Cardinality(fetchFailed) < MaxFetchFailures
    /\ batch' = [batch EXCEPT ![i].st = "rejected"]
    /\ fetchFailed' = fetchFailed \cup {batch[i].id}
    /\ UNCHANGED <<config, rootEntryIds, targetTagIds, visitedEntries, visitedAssets,
                   entryRows, assetRows, queue, cState, procDepth, fetchCount, expanded,
                   assetFrom, poolVars>>
    /\ UNCHANGED <<applyVars, tagVars, rootVars, abandoned, edits, extractVars>>

\* await Promise.all(batch.map(...)) rejects: traverseDescendants throws.
WaveRejects ==
    /\ cState = "wave"
    /\ \E i \in 1..Len(batch) : batch[i].st = "rejected"
    /\ cState' = "failed"
    /\ UNCHANGED <<config, rootEntryIds, targetTagIds, visitedEntries, visitedAssets,
                   entryRows, assetRows, queue, batch, procDepth, fetchCount, expanded,
                   assetFrom, fetchFailed, poolVars>>
    /\ UNCHANGED <<applyVars, tagVars, rootVars, abandoned, edits, extractVars>>

\* Promise.all over the callbacks of the batch resolves when every one of
\* them has resolved.
WaveNotAwaited(b) == TRUE
WaveComplete(b) == \A i \in 1..Len(b) : b[i].st \in {"done", "skipped"}

\* await Promise.all(batch.map(...)) resolves: back to the loop head.
WaveResolves ==
    /\ cState = "wave"
    /\ WaveComplete(batch)
    /\ CrawlProceed(config, queue, visitedEntries)
    /\ UNCHANGED <<config, rootEntryIds, targetTagIds, visitedAssets, entryRows, expanded,
                   assetFrom, fetchFailed>>
    /\ UNCHANGED <<applyVars, tagVars, rootVars, abandoned, edits, extractVars>>

\* The asset worker of runner r resumes with the fetched asset and returns its row.
AssetFetched(r) ==
    /\ cState \in {"assets", "failed"}
    /\ runners[r].st = "awaiting"
    /\ LET id == pItems[runners[r].myIdx + 1]
       IN  RunnerResume(r, TRUE, AssetRow(targetTagIds, id, Assets[id]))
    /\ UNCHANGED <<crawlVars, applyVars, tagVars, rootVars, abandoned, edits, extractVars>>

\* sdk.cma.asset.get rejects for runner r: the worker throws.
AssetFetchFails(r) ==
    /\ cState \in {"assets", "failed"}
    /\ runners[r].st = "awaiting"
    /\ Cardinality(fetchFailed) < MaxFetchFailures
    /\ RunnerResume(r, FALSE, "")
    /\ fetchFailed' = fetchFailed \cup {pItems[runners[r].myIdx + 1]}
    /\ UNCHANGED <<config, rootEntryIds, targetTagIds, visitedEntries, visitedAssets,
                   entryRows, assetRows, queue, batch, cState, procDepth, fetchCount,
                   expanded, assetFrom>>
    /\ UNCHANGED <<applyVars, tagVars, rootVars, abandoned, edits, extractVars>>

\* await promisePool(...) resolved: the rows are stored and the summary returned.
AssetsLoaded ==
    /\ cState = "assets"
    /\ pState = "resolved"
    /\ assetRows' = MapSetAll(assetRows,
                              [i \in 1..Len(pItems) |-> pResults[i - 1][1]])
    /\ cState' = "done"
    /\ UNCHANGED <<config, rootEntryIds, targetTagIds, visitedEntries, visitedAssets,
                   entryRows, queue, batch, procDepth, fetchCount, expanded, assetFrom,
                   fetchFailed, poolVars>>
    /\ UNCHANGED <<applyVars, tagVars, rootVars, abandoned, edits, extractVars>>

\* await promisePool(...) rejected: traverseDescendants throws.
AssetsRejected ==
    /\ cState = "assets"
    /\ pState = "rejected"
    /\ cState' = "failed"
    /\ UNCHANGED <<config, rootEntryIds, targetTagIds, visitedEntries, visitedAssets,
                   entryRows, assetRows, queue, batch, procDepth, fetchCount, expanded,
                   assetFrom, fetchFailed, poolVars>>
    /\ UNCHANGED <<applyVars, tagVars, rootVars, abandoned, edits, extractVars>>

\* ------------------------------------------------------------------ the dialog's onApply

MaxApplyFailures == 1
MaxEdits == 1

\* const concurrency = 4
ApplyConcurrency == 4

\* { sys: { type: 'Link', linkType: 'Tag', id } }
makeTagLink(id) == [linkType |-> "Tag", id |-> id]

\* A stored entry or asset as onApply reads it: metadata.tags, sys.version and
\* sys.publishedVersion (0: never published).
Item(tagIds, version, publishedVersion) ==
    [tags |-> [i \in 1..Len(tagIds) |-> makeTagLink(tagIds[i])],
     version |-> version, publishedVersion |-> publishedVersion]

\* The repository when the dialog opens.  e1, e3 and m1 are published, e2 is
\* a draft; e3 holds a tag link without an id; e3 and m1 already carry t1.
StoreInit ==
    [e1 |-> Item(<<>>, 3, 2),
     e2 |-> Item(<<"t2">>, 1, 0),
     e3 |-> Item(<<"", "t1">>, 6, 5),
     eX |-> Item(<<>>, 1, 0),
     e4 |-> Item(<<>>, 1, 0),
     e5 |-> Item(<<"t3">>, 1, 0),
     m1 |-> Item(<<"t1">>, 2, 1),
     mOk |-> Item(<<"t1", "t2">>, 1, 0)]

ItemIds == DOMAIN StoreInit

Row(id, excluded, willAdd) ==
    [id |-> id, excluded |-> excluded, willAdd |-> willAdd, alreadyOk |-> ~excluded /\ ~willAdd]

\* p.contentRows and p.mediaRows
ContentRows ==
    <<Row("e1", FALSE, TRUE), Row("e2", FALSE, TRUE), Row("e3", FALSE, TRUE),
      Row("eX", TRUE, FALSE), Row("e4", FALSE, TRUE), Row("e5", FALSE, TRUE)>>

MediaRows == <<Row("m1", FALSE, TRUE), Row("mOk", FALSE, FALSE)>>

\* new Map(rows.map((r) => [r.id, r])).get(id): <<>> is undefined
RowById(rows, id) ==
    LET hits == {i \in 1..Len(rows) : rows[i].id = id}
    IN  IF hits = {} THEN <<>>
        ELSE <<rows[CHOOSE i \in hits : \A j \in hits : j <= i]>>

\* row && !row.excluded && row.willAdd
AnyRowActionable(row) == row # <<>>
IsActionable(row) == row # <<>> /\ ~row[1].excluded /\ row[1].willAdd

\* selected.filter((id) => { const row = byId.get(id); return row && ... })
ActionableIds(selected, rows) ==
    SelectSeq(selected, LAMBDA id : IsActionable(RowById(rows, id)))

\* row?.excluded
RowExcluded(row) == row # <<>> /\ row[1].excluded

\* existing.map((t) => t?.sys?.id).filter(Boolean)
ExistingIds(existing) ==
    LET ids == [i \in 1..Len(existing) |-> existing[i].id]
    IN  SelectSeq(ids, LAMBDA id : id # "")

\* mergedLinks = [...existing]; for (const tagId of p.targetTagIds)
\*   if (!existingIds.includes(tagId)) mergedLinks.push(makeTagLink(tagId))
AppendEveryTarget(existing, target) ==
    existing \o [i \in 1..Len(target) |-> makeTagLink(target[i])]
MergedLinks(existing, target) ==
    LET existingIds == ExistingIds(existing)
        added == SelectSeq(target, LAMBDA tagId : tagId \notin Range(existingIds))
    IN  existing \o [i \in 1..Len(added) |-> makeTagLink(added[i])]

\* Boolean(entity?.sys?.publishedVersion)
WasPublished(entity) == entity.publishedVersion # 0

\* preservePublishState && wasPublished
RepublishAlways(preserve, wasPublished) == TRUE
RepublishWanted(preserve, wasPublished) == preserve /\ wasPublished

Tally(n) ==
    [selected |-> n, updated |-> 0, republished |-> 0, skippedExcluded |-> 0,
     skippedAlreadyOk |-> 0, failed |-> 0]

\* summary.<collection>.failed += 1
FailureUncounted(sum, coll) == sum
CountFailed(sum, coll) == [sum EXCEPT ![coll].failed = @ + 1]

NoDoc == [tags |-> <<>>, version |-> 0, publishedVersion |-> 0]

NoWork == [stage |-> "none", doc |-> NoDoc, wasPublished |-> FALSE]

Call(op, version) == [op |-> op, version |-> version]

\* The collection the running pool works on, and its rows.
Coll == IF aState = "content" THEN "entries" ELSE "assets"

CollRows(coll) == IF coll = "entries" THEN ContentRows ELSE MediaRows

Progress(coll, n, of) ==
    [phase |-> IF coll = "entries" THEN "content" ELSE "media", n |-> n, of |-> of]

ItemOf(r) == pItems[runners[r].myIdx + 1]

Idle == [phase |-> "", n |-> 0, of |-> 0]

\* setApplyStatus(text): the phase of the text is logged when it differs
\* from the one logged last.
Logged(log, phase) ==
    IF log # <<>> /\ log[Len(log)] = phase THEN log ELSE Append(log, phase)

\* The workers of the runners in `new`, each up to its first await: a worker
\* whose row is excluded counts the skip and returns, any other issues the
\* fetch of its item.
Dispatch(new, base, sum, proc, coll, log) ==
    LET item(r) == pItems'[runners'[r].myIdx + 1]
        skips == {r \in new : RowExcluded(RowById(CollRows(coll), item(r)))}
        n == Cardinality(skips)
    IN  /\ work' = [r \in 1..Len(runners') |->
                        IF r \in skips THEN [NoWork EXCEPT !.stage = "returned"]
                        ELSE IF r \in new THEN [NoWork EXCEPT !.stage = "get"]
                        ELSE base[r]]
        /\ summary' = [sum EXCEPT ![coll].skippedExcluded = @ + n]
        /\ processed' = [proc EXCEPT ![coll] = @ + n]
        /\ calls' = [id \in DOMAIN calls |->
                        IF \E r \in new \ skips : item(r) = id
                        THEN Append(calls[id], Call("get", 0))
                        ELSE calls[id]]
        /\ applyStatus' = Progress(coll, proc[coll] + n, Len(pItems'))
        /\ statusLog' = Logged(log, applyStatus'.phase)

\* setApplyStatus(`Updating ... (0/n)`); await promisePool(ids, concurrency, worker)
StartPhase(coll, items, sum, proc, log) ==
    /\ PoolBegin(items, ApplyConcurrency)
    /\ Dispatch({r \in 1..Len(runners') : runners'[r].st = "awaiting"},
                [r \in 1..Len(runners') |-> NoWork], sum, proc, coll, log)
    /\ aState' = IF coll = "entries" THEN "content" ELSE "media"

\* setApplySummary(summary); setApplyStatus('Done.'); setApplyDone(true);
\* await Notification.error / success
Finish(sum) ==
    /\ applySummary' = <<sum>>
    /\ applyStatus' = [phase |-> "done", n |-> 0, of |-> 0]
    /\ statusLog' = Logged(statusLog, applyStatus'.phase)
    /\ applyDone' = TRUE
    /\ aState' = "notifying"
    /\ UNCHANGED <<summary, processed, work, calls, poolVars>>

\* const totalSelected = selectedContentIds.length + selectedMediaIds.length;
\* if (!totalSelected)
SelectionIgnored(cSel, mSel) == FALSE
NothingSelected(cSel, mSel) == Len(cSel) + Len(mSel) = 0

\* ---- the inputs of onApply

ApplyTargetLists == {<<>>, <<"t1">>, <<"t2", "t1">>}

\* The selections are taken as onApply finds them in selectedContentIds and
\* selectedMediaIds: any ids in table order, ids of excluded rows, of rows
\* with nothing to add and ids without a row included.
Picked(order, chosen) == SelectSeq(order, LAMBDA id : id \in chosen)

ContentSelections == {Picked(<<"e1", "e2", "e3", "eX">>, c) : c \in SUBSET {"e1", "e2", "e3", "eX"}}

MediaSelections == {Picked(<<"m1", "mOk", "mZ">>, c) : c \in SUBSET {"m1", "mOk", "mZ"}}

ApplyIdle ==
    /\ targetIds = <<>>
    /\ preservePublishState = FALSE
    /\ selectedContentIds = <<>>
    /\ selectedMediaIds = <<>>
    /\ isApplying = FALSE
    /\ applyStatus = Idle
    /\ applyError = ""
    /\ applyDone = FALSE
    /\ applySummary = <<>>
    /\ actionableContentIds = <<>>
    /\ actionableMediaIds = <<>>
    /\ summary = [entries |-> Tally(0), assets |-> Tally(0)]
    /\ processed = [entries |-> 0, assets |-> 0]
    /\ aState = "idle"
    /\ work = <<>>
    /\ store = StoreInit
    /\ calls = [id \in ItemIds \cup {"mZ"} |-> <<>>]
    /\ failures = 0
    /\ statusLog = <<>>

\* onApply, called with the given payload, switch and selection, up to its
\* first await or its early return.
ApplyBegin(target, preserve, cSel, mSel) ==
    LET cIds == ActionableIds(cSel, ContentRows)
        mIds == ActionableIds(mSel, MediaRows)
        sum == [entries |-> Tally(Len(cIds)), assets |-> Tally(Len(mIds))]
        proc == [entries |-> 0, assets |-> 0]
    IN  /\ targetIds' = target
        /\ preservePublishState' = preserve
        /\ selectedContentIds' = cSel
        /\ selectedMediaIds' = mSel
        /\ applyDone' = FALSE
        /\ applySummary' = <<>>
        /\ IF Len(target) = 0
           THEN /\ applyError' = "noTagIds"
                /\ aState' = "returned"
                /\ UNCHANGED <<isApplying, applyStatus, statusLog, actionableContentIds,
                               actionableMediaIds, summary, processed, work, calls,
                               poolVars>>
           ELSE IF NothingSelected(cSel, mSel)
           THEN /\ applyError' = "nothingSelected"
                /\ aState' = "returned"
                /\ UNCHANGED <<isApplying, applyStatus, statusLog, actionableContentIds,
                               actionableMediaIds, summary, processed, work, calls,
                               poolVars>>
           ELSE IF Len(cIds) = 0 /\ Len(mIds) = 0
           THEN /\ applyError' = ""
                /\ applyStatus' = [phase |-> "nothingToUpdate", n |-> 0, of |-> 0]
                /\ statusLog' = Logged(statusLog, applyStatus'.phase)
                /\ aState' = "returned"
                /\ actionableContentIds' = cIds
                /\ actionableMediaIds' = mIds
                /\ UNCHANGED <<isApplying, summary, processed, work, calls, poolVars>>
           ELSE /\ applyError' = ""
                /\ isApplying' = TRUE
                /\ actionableContentIds' = cIds
                /\ actionableMediaIds' = mIds
                /\ IF Len(cIds) > 0
                   THEN StartPhase("entries", cIds, sum, proc, Logged(statusLog, "preparing"))
                   ELSE StartPhase("assets", mIds, sum, proc, Logged(statusLog, "preparing"))

\* onApply with any selection.
ApplyCall ==
    /\ aState = "idle"
    /\ \E target \in ApplyTargetLists, preserve \in BOOLEAN,
          cSel \in ContentSelections, mSel \in MediaSelections :
        ApplyBegin(target, preserve, cSel, mSel)
    /\ UNCHANGED <<store, failures, crawlVars, tagVars, rootVars, abandoned, edits, extractVars>>

\* useState(initialContentSelected) / useState(initialMediaSelected): the
\* ids of the rows that are not excluded and have a tag to add.
InitialSelected(rows) ==
    LET ids == [i \in 1..Len(rows) |-> rows[i].id]
    IN  SelectSeq(ids, LAMBDA id : IsActionable(RowById(rows, id)))

\* onApply with the selection the dialog opens with, after a crawl has
\* returned or without one.
ApplyInitialSelection ==
    /\ aState = "idle"
    /\ cState \in {"idle", "done"}
    /\ ApplyBegin(<<"t2", "t1">>, FALSE, InitialSelected(ContentRows),
                  InitialSelected(MediaRows))
    /\ UNCHANGED <<store, failures, crawlVars, tagVars, rootVars, abandoned, edits, extractVars>>

\* The catch and finally blocks of the worker of runner r: the failure is
\* counted, the item is counted as processed and the worker returns.
WorkerCatch(r) ==
    /\ failures < MaxApplyFailures
    /\ failures' = failures + 1
    /\ summary' = CountFailed(summary, Coll)
    /\ processed' = [processed EXCEPT ![Coll] = @ + 1]
    /\ applyStatus' = Progress(Coll, processed[Coll] + 1, Len(pItems))
    /\ statusLog' = Logged(statusLog, applyStatus'.phase)
    /\ work' = [work EXCEPT ![r] = [NoWork EXCEPT !.stage = "returned"]]
    /\ UNCHANGED <<targetIds, preservePublishState, selectedContentIds, selectedMediaIds,
                   isApplying, applyError, applyDone, applySummary, actionableContentIds,
                   actionableMediaIds, aState, store, calls, poolVars, crawlVars, tagVars, rootVars, abandoned, edits, extractVars>>

\* await sdk.cma.entry.get / asset.get: the item as the repository holds it
\* when the request is answered, not the item as the inventory saw it.
ScannedItem(stored, id) == StoreInit[id]
FetchedItem(stored, id) == stored[id]

\* The worker of runner r resumes with the fetched item: the target tags
\* that are absent are appended and the update is issued.
ItemFetched(r) ==
    /\ aState \in {"content", "media"}
    /\ work[r].stage = "get"
    /\ LET id == ItemOf(r)
           entity == FetchedItem(store, id)
           doc == [entity EXCEPT !.tags = MergedLinks(entity.tags, targetIds)]
       IN  /\ work' = [work EXCEPT ![r] = [stage |-> "update", doc |-> doc,
                                           wasPublished |-> WasPublished(entity)]]
           /\ calls' = [calls EXCEPT ![id] = Append(@, Call("update", doc.version))]
    /\ UNCHANGED <<targetIds, preservePublishState, selectedContentIds, selectedMediaIds,
                   isApplying, applyStatus, statusLog, applyError, applyDone,
                   applySummary,
                   actionableContentIds, actionableMediaIds, summary, processed, aState,
                   store, failures, poolVars, crawlVars, tagVars, rootVars, abandoned, edits, extractVars>>

\* sdk.cma.entry.get / asset.get rejects.
ItemFetchFails(r) ==
    /\ aState \in {"content", "media"}
    /\ work[r].stage = "get"
    /\ WorkerCatch(r)

\* The update resolves: the repository holds the merged tag list under the
\* next revision; the worker counts the update and either issues the publish
\* of the returned document or runs its finally block and returns.
ItemUpdated(r) ==
    /\ aState \in {"content", "media"}
    /\ work[r].stage = "update"
    /\ LET id == ItemOf(r)
           updated == [tags |-> work[r].doc.tags, version |-> work[r].doc.version + 1,
                       publishedVersion |-> store[id].publishedVersion]
           sum == [summary EXCEPT ![Coll].updated = @ + 1]
       IN  /\ store' = [store EXCEPT ![id] = updated]
           /\ summary' = sum
           /\ IF RepublishWanted(preservePublishState, work[r].wasPublished)
              THEN /\ work' = [work EXCEPT ![r] = [stage |-> "publish", doc |-> updated,
                                                  wasPublished |-> TRUE]]
                   /\ calls' = [calls EXCEPT ![id] = Append(@, Call("publish", updated.version))]
                   /\ UNCHANGED <<processed, applyStatus, statusLog>>
              ELSE /\ work' = [work EXCEPT ![r] = [NoWork EXCEPT !.stage = "returned"]]
                   /\ processed' = [processed EXCEPT ![Coll] = @ + 1]
                   /\ applyStatus' = Progress(Coll, processed[Coll] + 1, Len(pItems))
                   /\ statusLog' = Logged(statusLog, applyStatus'.phase)
                   /\ UNCHANGED calls
    /\ UNCHANGED <<targetIds, preservePublishState, selectedContentIds, selectedMediaIds,
                   isApplying, applyError, applyDone, applySummary, actionableContentIds,
                   actionableMediaIds, aState, failures, poolVars, crawlVars, tagVars, rootVars, abandoned, edits, extractVars>>

\* sdk.cma.entry.update / asset.update rejects.
ItemUpdateFails(r) ==
    /\ aState \in {"content", "media"}
    /\ work[r].stage = "update"
    /\ WorkerCatch(r)

\* The publish resolves: the published revision is the one the update
\* returned; the worker counts the republish, runs its finally block and returns.
ItemPublished(r) ==
    /\ aState \in {"content", "media"}
    /\ work[r].stage = "publish"
    /\ LET id == ItemOf(r)
           doc == work[r].doc
       IN  store' = [store EXCEPT ![id] = [tags |-> doc.tags, version |-> doc.version + 1,
                                          publishedVersion |-> doc.version]]
    /\ summary' = [summary EXCEPT ![Coll].republished = @ + 1]
    /\ processed' = [processed EXCEPT ![Coll] = @ + 1]
    /\ applyStatus' = Progress(Coll, processed[Coll] + 1, Len(pItems))
    /\ statusLog' = Logged(statusLog, applyStatus'.phase)
    /\ work' = [work EXCEPT ![r] = [NoWork EXCEPT !.stage = "returned"]]
    /\ UNCHANGED <<targetIds, preservePublishState, selectedContentIds, selectedMediaIds,
                   isApplying, applyError, applyDone, applySummary, actionableContentIds,
                   actionableMediaIds, aState, calls, failures, poolVars, crawlVars, tagVars, rootVars, abandoned, edits, extractVars>>

\* sdk.cma.entry.publish / asset.publish rejects.
ItemPublishFails(r) ==
    /\ aState \in {"content", "media"}
    /\ work[r].stage = "publish"
    /\ WorkerCatch(r)

\* The worker call of runner r has returned: the runner goes round its loop
\* and, if it claims another item, starts that item's worker.
WorkerReturns(r) ==
    /\ aState \in {"content", "media"}
    /\ work[r].stage = "returned"
    /\ RunnerResume(r, TRUE, ItemOf(r))
    /\ Dispatch(IF runners'[r].st = "awaiting" THEN {r} ELSE {},
                [work EXCEPT ![r] = NoWork], summary, processed, Coll, statusLog)
    /\ UNCHANGED <<targetIds, preservePublishState, selectedContentIds, selectedMediaIds,
                   isApplying, applyError, applyDone, applySummary, actionableContentIds,
                   actionableMediaIds, aState, store, failures, crawlVars, tagVars, rootVars, abandoned, edits, extractVars>>

\* await promisePool(actionableContentIds, ...) resolved: on to the media,
\* or to the summary when no media item is actionable.
ContentDone ==
    /\ aState = "content"
    /\ pState = "resolved"
    /\ IF Len(actionableMediaIds) > 0
       THEN /\ StartPhase("assets", actionableMediaIds, summary, processed, statusLog)
            /\ UNCHANGED <<applySummary, applyDone>>
       ELSE Finish(summary)
    /\ UNCHANGED <<targetIds, preservePublishState, selectedContentIds, selectedMediaIds,
                   isApplying, applyError, actionableContentIds, actionableMediaIds,
                   store, failures, crawlVars, tagVars, rootVars, abandoned, edits, extractVars>>

\* await promisePool(actionableMediaIds, ...) resolved.
MediaDone ==
    /\ aState = "media"
    /\ pState = "resolved"
    /\ Finish(summary)
    /\ UNCHANGED <<targetIds, preservePublishState, selectedContentIds, selectedMediaIds,
                   isApplying, applyError, actionableContentIds, actionableMediaIds,
                   store, failures, crawlVars, tagVars, rootVars, abandoned, edits, extractVars>>

\* await Notification.error / success resolved; finally setIsApplying(false).
Notified ==
    /\ aState = "notifying"
    /\ isApplying' = FALSE
    /\ aState' = "returned"
    /\ UNCHANGED <<targetIds, preservePublishState, selectedContentIds, selectedMediaIds,
                   applyStatus, statusLog, applyError, applyDone, applySummary,
                   actionableContentIds,
                   actionableMediaIds, summary, processed, work, store, calls, failures,
                   poolVars, crawlVars, tagVars, rootVars, abandoned, edits, extractVars>>

\* ---- the repository between the scan and the apply

\* The tags another editor may add: a target tag and a tag no target list holds.
EditTags == {"t1", "t9"}

EditedIds == {"e2", "e3", "m1"}

\* Another editor adds a tag to a stored item after the dialog has opened
\* with its inventory: the item gets a new revision.  The change lands
\* before the item's fetch is answered; onApply reads the item only there.
ItemEdited ==
    /\ edits < MaxEdits
    /\ aState \in {"idle", "content", "media"}
    /\ \E id \in EditedIds, tag \in EditTags :
        /\ \A r \in 1..Len(work) : work[r].stage \in {"update", "publish"} => ItemOf(r) # id
        /\ \A i \in 1..Len(store[id].tags) : store[id].tags[i].id # tag
        /\ store' = [store EXCEPT ![id] = [@ EXCEPT !.tags = Append(@, makeTagLink(tag)),
                                                     !.version = @ + 1]]
    /\ edits' = edits + 1
    /\ UNCHANGED <<targetIds, preservePublishState, selectedContentIds, selectedMediaIds,
                   isApplying, applyStatus, statusLog, applyError, applyDone,
                   applySummary, actionableContentIds, actionableMediaIds, summary,
                   processed, aState, work, calls, failures>>
    /\ UNCHANGED <<poolVars, crawlVars, tagVars, rootVars, abandoned, extractVars>>

\* onApply with both target tags and the rows e2, e3 and m1 selected, as the
\* inventory listed them.
ApplyScanned ==
    /\ aState = "idle"
    /\ \E preserve \in BOOLEAN :
        ApplyBegin(<<"t2", "t1">>, preserve, <<"e2", "e3">>, <<"m1">>)
    /\ UNCHANGED <<store, failures, crawlVars, tagVars, rootVars, abandoned, edits, extractVars>>

\* ------------------------------------------------------------------ resolveTargetTagIds

MaxNames == 2
MaxResolves == 2
MaxCreated == 1

\* const limit = 100
TagPageLimit == 100

Min(a, b) == IF a <= b THEN a ELSE b

\* A tag as tag.getMany returns it, and one that carries no name.
TagItem(id, name) == Obj(<<"sys", "name">>, <<Obj(<<"id">>, <<Str(id)>>), Str(name)>>)

NamelessTag(id) == Obj(<<"sys">>, <<Obj(<<"id">>, <<Str(id)>>)>>)

\* The i-th tag of the space: Berlin comes first, a tag without a name
\* second, Paris right after the first page; the others are fillers.
TagAt(i) ==
    IF i = 1 THEN TagItem("tBerlin", "Berlin")
    ELSE IF i = 2 THEN NamelessTag("tX")
    ELSE IF i = TagPageLimit + 1 THEN TagItem("tParis", "Paris")
    ELSE TagItem("id" \o ToString(i), "n" \o ToString(i))

\* The sizes of the space's tag list: empty, within one page, exactly one
\* page, one page and one tag.
ListingSizes == {0, 2, TagPageLimit, TagPageLimit + 1}

\* res.items for query { limit, skip } over a space of n tags
Page(n, skip, limit) == [i \in 1..(Min(skip + limit, n) - Min(skip, n)) |-> TagAt(skip + i)]

\* new Map()
EmptyMap == <<>>

\* for (const t of items) if (typeof id === 'string' && typeof name === 'string')
\*   byName.set(name, id)
AddItems(byName, items) ==
    LET IdOf(i) == Get(Get(items[i], "sys"), "id")
        NameOf(i) == Get(items[i], "name")
        valid == {i \in 1..Len(items) : IdOf(i).kind = "str" /\ NameOf(i).kind = "str"}
        names == {NameOf(i).s : i \in valid}
        Last(name) == CHOOSE i \in valid :
                          /\ NameOf(i).s = name
                          /\ \A j \in valid : NameOf(j).s = name => j <= i
    IN  [x \in DOMAIN byName \cup names |->
            IF x \in names THEN IdOf(Last(x)).s ELSE byName[x]]

\* tagNamesOrIds.filter(Boolean)
KeepEvery(names) == names
DropFalsy(names) == SelectSeq(names, LAMBDA n : n # "")

\* Array.from(new Set(list)): the first occurrence of every element, in order
NotDeduplicated(list) == list
Distinct(list) ==
    LET firsts == {i \in 1..Len(list) : \A j \in 1..(i - 1) : list[j] # list[i]}
        Pick[i \in 0..Len(list)] ==
            IF i = 0 THEN <<>>
            ELSE IF i \in firsts THEN Append(Pick[i - 1], list[i]) ELSE Pick[i - 1]
    IN  Pick[Len(list)]

Uniq(tagNamesOrIds) == Distinct(DropFalsy(tagNamesOrIds))

\* for (const name of uniq) { const id = cache.get(name); if (id) tagIds.push(id);
\*   else missing.push(name) }
Found(map, name) == name \in DOMAIN map /\ map[name] # ""

Lookup(uniq, map) ==
    LET hits == SelectSeq(uniq, LAMBDA name : Found(map, name))
    IN  [tagIds |-> [i \in 1..Len(hits) |-> map[hits[i]]],
         missing |-> SelectSeq(uniq, LAMBDA name : ~Found(map, name))]

NoResult == [tagIds |-> <<>>, missing |-> <<>>]

\* ---- the inputs of resolveTargetTagIds

NamePool == {"", "Paris", "Nowhere"}

NameLists == UNION {[1..n -> NamePool] : n \in 0..MaxNames}

ResolveIdle ==
    /\ tagListing = 0
    /\ tagNameCache = <<>>
    /\ rMode = "id"
    /\ rInput = <<>>
    /\ rState = "idle"
    /\ rSkip = 0
    /\ rByName = EmptyMap
    /\ rResult = NoResult
    /\ rCalls = 0
    /\ listRequests = 0
    /\ tagsCreated = <<>>

\* if (!tagNameCache.current)
CacheAlwaysNull(cache) == TRUE
CacheIsNull(cache) == cache = <<>>

\* resolveTargetTagIds(sdk, tagMatchMode, tagNamesOrIds, tagNameCache) up to its
\* first await or its return.
ResolveCall ==
    /\ rState \in {"idle", "returned", "failed"}
    /\ rCalls < MaxResolves
    /\ \E mode \in {"id", "name"}, names \in NameLists :
        /\ rMode' = mode
        /\ rInput' = names
        /\ rCalls' = rCalls + 1
        /\ IF mode = "id"
           THEN /\ rResult' = [tagIds |-> Uniq(names), missing |-> <<>>]
                /\ rState' = "returned"
                /\ UNCHANGED <<tagListing, tagNameCache, rSkip, rByName, listRequests>>
           ELSE IF CacheIsNull(tagNameCache)
           THEN /\ tagListing' \in ListingSizes
                /\ rByName' = EmptyMap
                /\ rSkip' = 0
                /\ listRequests' = listRequests + 1
                /\ rResult' = NoResult
                /\ rState' = "listing"
                /\ UNCHANGED tagNameCache
           ELSE /\ rResult' = Lookup(Uniq(names), tagNameCache[1])
                /\ rState' = "returned"
                /\ UNCHANGED <<tagListing, tagNameCache, rSkip, rByName, listRequests>>
    /\ UNCHANGED <<tagsCreated, poolVars, crawlVars, applyVars, rootVars, abandoned, edits, extractVars>>

\* tag.getMany resolves with a page: its tags are added to byName; a full
\* page is followed by the request for the next one, a short page ends the
\* listing, the map becomes the cache and the names are looked up.
ListingPage ==
    /\ rState = "listing"
    /\ LET items == Page(tagListing, rSkip, TagPageLimit)
           byName == AddItems(rByName, items)
       IN  IF Len(items) < TagPageLimit
           THEN /\ tagNameCache' = <<byName>>
                /\ rByName' = byName
                /\ rResult' = Lookup(Uniq(rInput), byName)
                /\ rState' = "returned"
                /\ UNCHANGED <<rSkip, listRequests>>
           ELSE /\ rByName' = byName
                /\ rSkip' = rSkip + TagPageLimit
                /\ listRequests' = listRequests + 1
                /\ UNCHANGED <<tagNameCache, rResult, rState>>
    /\ UNCHANGED <<tagListing, rMode, rInput, rCalls, tagsCreated, poolVars, crawlVars,
                   applyVars, rootVars, abandoned, edits, extractVars>>

\* tag.getMany rejects: getAllTagsByName and resolveTargetTagIds throw.
ListingFails ==
    /\ rState = "listing"
    /\ rState' = "failed"
    /\ UNCHANGED <<tagListing, tagNameCache, rMode, rInput, rSkip, rByName, rResult,
                   rCalls, listRequests, tagsCreated, poolVars, crawlVars, applyVars, rootVars, abandoned, edits, extractVars>>

\* Somebody creates a tag in the space after the map was loaded: the space
\* lists one tag more, nothing of the running session is touched.
TagCreated ==
    /\ tagNameCache # <<>>
    /\ Len(tagsCreated) < MaxCreated
    /\ tagListing' = tagListing + 1
    /\ tagsCreated' = Append(tagsCreated, rCalls)
    /\ UNCHANGED <<tagNameCache, rMode, rInput, rState, rSkip, rByName, rResult, rCalls,
                   listRequests, poolVars, crawlVars, applyVars, rootVars, abandoned, edits, extractVars>>

\* ------------------------------------------------------------------ findRootPagesForLocation

\* const limit = 100
RootPageLimit == 100

\* The answer of the space for a (content type, field) whose content type
\* has no field of that id.
NoField == -1

\* An error message, as the parts it is made of; <<>> is an error that
\* carries no message.
NoFieldMessage(fieldId) == <<"No field with id", fieldId>>

OtherMessages == {<<"Rate limit exceeded">>, <<>>}

\* msg.includes(part)
Includes(msg, part) == part \in Range(msg)

\* catch (e): if (msg.includes('No field with id')) break; throw e
SwallowsNothing(msg) == FALSE
Swallowed(msg) == Includes(msg, "No field with id")

\* The records of type ct the space holds are ct-1, ct-2, ...; n of them
\* link the location through fieldId: from the first on through `location`,
\* from the second on through any other field, so that a record can match
\* through two fields.
FieldOffset(fieldId) == IF fieldId = "location" THEN 0 ELSE 1

EntryItem(id) == Obj(<<"sys">>, <<Obj(<<"id">>, <<Str(id)>>)>>)

MatchId(ct, fieldId, i) == ct \o "-" \o ToString(FieldOffset(fieldId) + i)

\* res.items for query { content_type, fields.<fieldId>.sys.id, limit, skip }
\* over n matching records
QueryPage(ct, fieldId, n, from, limit) ==
    [i \in 1..(Min(from + limit, n) - Min(from, n)) |-> EntryItem(MatchId(ct, fieldId, from + i))]

\* for (const item of items) { const id = item?.sys?.id; if (id) set.add(id) }
AddItemIds(set, items) ==
    LET ids == [i \in 1..Len(items) |-> Get(Get(items[i], "sys"), "id")]
        kept == SelectSeq(ids, LAMBDA v : Truthy(v))
        new == {i \in 1..Len(kept) :
                   /\ kept[i].s \notin Range(set)
                   /\ \A j \in 1..(i - 1) : kept[j].s # kept[i].s}
        added == SelectSeq([i \in 1..Len(kept) |-> i], LAMBDA i : i \in new)
    IN  set \o [k \in 1..Len(added) |-> kept[added[k]].s]

\* if (items.length < limit) break
StopsAfterFirstPage(items, limit) == TRUE
LastPage(items, limit) == Len(items) < limit

\* perContentType[ct] = ctRootIds.size
PutCount(per, ct, n) == [x \in DOMAIN per \cup {ct} |-> IF x = ct THEN n ELSE per[x]]

\* The loops from the head of the inner one, at content type c and field f,
\* with the per-type set ids: they run on without a request past the end of
\* the field list (the count of the type is stored and the next type
\* starts with an empty set) until a request is due or the types are
\* exhausted.
RECURSIVE LoopsFrom(_, _, _, _, _)
LoopsFrom(cfg, c, f, ids, per) ==
    IF c > Len(cfg.rootContentTypes)
    THEN [ctAt |-> c, fieldAt |-> f, ctRootIds |-> ids, perContentType |-> per, over |-> TRUE]
    ELSE IF f > Len(cfg.locationLinkFieldIds)
    THEN LoopsFrom(cfg, c + 1, 1, <<>>, PutCount(per, cfg.rootContentTypes[c], Len(ids)))
    ELSE [ctAt |-> c, fieldAt |-> f, ctRootIds |-> ids, perContentType |-> per, over |-> FALSE]

\* The loops go on from (c, f, ids): either the next request is issued with
\* skip 0 or the function returns.
Proceed(cfg, c, f, ids) ==
    LET at == LoopsFrom(cfg, c, f, ids, perContentType)
    IN  /\ ctAt' = at.ctAt
        /\ fieldAt' = at.fieldAt
        /\ ctRootIds' = at.ctRootIds
        /\ perContentType' = at.perContentType
        /\ qSkip' = 0
        /\ IF at.over
           THEN /\ fState' = "returned"
                /\ UNCHANGED queries
           ELSE /\ fState' = "querying"
                /\ queries' = Append(queries,
                                     [ct |-> cfg.rootContentTypes[at.ctAt],
                                      field |-> cfg.locationLinkFieldIds[at.fieldAt],
                                      skip |-> 0])

CurrentCt == rootConfig.rootContentTypes[ctAt]

CurrentField == rootConfig.locationLinkFieldIds[fieldAt]

\* What the space may hold for the combination in hand: what an earlier
\* request of this call has shown, or anything when it is the first.
Known(combo) == combo \in DOMAIN repo

RepoWith(combo, n) == [x \in DOMAIN repo \cup {combo} |-> IF x = combo THEN n ELSE repo[x]]

\* The numbers of matching records of a combination: none, less than a
\* page, exactly one page, one page and one record.
MatchCounts == {0, 2, RootPageLimit, RootPageLimit + 1}

\* ---- the inputs of findRootPagesForLocation

RootTypeLists == {<<>>, <<"page">>, <<"page", "article">>, <<"page", "page">>}

LinkFieldLists == {<<>>, <<"location">>, <<"location", "venue">>}

RootsIdle ==
    /\ rootConfig = [rootContentTypes |-> <<>>, locationLinkFieldIds |-> <<>>]
    /\ repo = <<>>
    /\ ctAt = 1
    /\ fieldAt = 1
    /\ qSkip = 0
    /\ foundRootIds = <<>>
    /\ ctRootIds = <<>>
    /\ perContentType = <<>>
    /\ fState = "idle"
    /\ queries = <<>>
    /\ rejections = <<>>

\* findRootPagesForLocation(sdk, locationId, config) up to its first await
\* or its return.
RootsCall ==
    /\ fState = "idle"
    /\ \E cts \in RootTypeLists, fields \in LinkFieldLists :
        LET cfg == [rootContentTypes |-> cts, locationLinkFieldIds |-> fields]
        IN  /\ rootConfig' = cfg
            /\ Proceed(cfg, 1, 1, <<>>)
    /\ UNCHANGED <<repo, foundRootIds, rejections, poolVars, crawlVars, applyVars, tagVars,
                   abandoned, edits, extractVars>>

\* entry.getMany resolves with a page.
QueryResolves ==
    /\ fState = "querying"
    /\ \E n \in MatchCounts :
        /\ Known(<<CurrentCt, CurrentField>>) => repo[<<CurrentCt, CurrentField>>] = n
        /\ repo' = RepoWith(<<CurrentCt, CurrentField>>, n)
        /\ LET items == QueryPage(CurrentCt, CurrentField, n, qSkip, RootPageLimit)
           IN  IF Len(items) = 0
               THEN /\ Proceed(rootConfig, ctAt, fieldAt + 1, ctRootIds)
                    /\ UNCHANGED foundRootIds
               ELSE /\ foundRootIds' = AddItemIds(foundRootIds, items)
                    /\ IF LastPage(items, RootPageLimit)
                       THEN Proceed(rootConfig, ctAt, fieldAt + 1,
                                    AddItemIds(ctRootIds, items))
                       ELSE /\ ctRootIds' = AddItemIds(ctRootIds, items)
                            /\ qSkip' = qSkip + RootPageLimit
                            /\ queries' = Append(queries,
                                                 [ct |-> CurrentCt, field |-> CurrentField,
                                                  skip |-> qSkip + RootPageLimit])
                            /\ UNCHANGED <<ctAt, fieldAt, perContentType, fState>>
    /\ UNCHANGED <<rootConfig, rejections, poolVars, crawlVars, applyVars, tagVars,
                   abandoned, edits, extractVars>>

\* entry.getMany rejects: with the message of a missing field when the
\* content type has no such field, with another message or none at any time.
QueryRejects ==
    /\ fState = "querying"
    /\ \E n \in {NoField} \cup MatchCounts,
          msg \in {NoFieldMessage(CurrentField)} \cup OtherMessages :
        /\ Known(<<CurrentCt, CurrentField>>) => repo[<<CurrentCt, CurrentField>>] = n
        /\ (msg = NoFieldMessage(CurrentField)) <=> (n = NoField)
        /\ repo' = RepoWith(<<CurrentCt, CurrentField>>, n)
        /\ rejections' = Append(rejections,
                                [ct |-> CurrentCt, field |-> CurrentField, msg |-> msg])
        /\ IF Swallowed(msg)
           THEN Proceed(rootConfig, ctAt, fieldAt + 1, ctRootIds)
           ELSE /\ fState' = "failed"
                /\ UNCHANGED <<ctAt, fieldAt, qSkip, ctRootIds, perContentType, queries>>
    /\ UNCHANGED <<rootConfig, foundRootIds, poolVars, crawlVars, applyVars, tagVars,
                   abandoned, edits, extractVars>>

\* ------------------------------------------------------------------ specifications

\* The component that awaits traverseDescendants or runs onApply is torn
\* down while the operation is under way. Neither function holds a flag
\* that the teardown could set, so nothing they read changes.
Abandon ==
    /\ ~abandoned
    /\ cState \in {"wave", "assets"} \/ aState \in {"content", "media"}
    /\ abandoned' = TRUE
    /\ UNCHANGED <<poolVars, crawlVars, applyVars, tagVars, rootVars, edits, extractVars>>

Init ==
    /\ PoolIdle /\ CrawlIdle /\ ApplyIdle /\ ResolveIdle /\ RootsIdle
    /\ abandoned = FALSE
    /\ edits = 0
    /\ ExtractIdle

\* ---- the pool on its own, with a worker that settles either way

ItemValues == {"a", "b"}

ItemLists == UNION {[1..n -> ItemValues] : n \in 0..MaxItems}

Concurrencies == (-1)..MaxConc

PoolCall ==
    /\ pState = "idle"
    /\ \E items \in ItemLists, c \in Concurrencies : PoolBegin(items, c)
    /\ UNCHANGED <<crawlVars, applyVars, tagVars, rootVars, abandoned, edits, extractVars>>

WorkerResolves ==
    \E r \in 1..Len(runners) :
        /\ runners[r].st = "awaiting"
        /\ RunnerResume(r, TRUE, pItems[runners[r].myIdx + 1])
        /\ UNCHANGED <<crawlVars, applyVars, tagVars, rootVars, abandoned, edits, extractVars>>

WorkerRejects ==
    \E r \in 1..Len(runners) :
        /\ runners[r].st = "awaiting"
        /\ Cardinality(pFailed) < MaxFailures
        /\ RunnerResume(r, FALSE, "")
        /\ UNCHANGED <<crawlVars, applyVars, tagVars, rootVars, abandoned, edits, extractVars>>

PoolNext ==
    \/ PoolCall
    \/ WorkerResolves
    \/ WorkerRejects
    \/ PoolSettle

PoolSpec == Init /\ [][PoolNext]_vars

\* ---- the crawl

CrawlNext ==
    \/ CrawlCall
    \/ \E i \in 1..Len(batch) : EntryFetched(i)
    \/ \E i \in 1..Len(batch) : EntryFetchFails(i)
    \/ WaveRejects
    \/ WaveResolves
    \/ \E r \in 1..Len(runners) : AssetFetched(r)
    \/ \E r \in 1..Len(runners) : AssetFetchFails(r)
    \/ PoolSettle
    \/ AssetsLoaded
    \/ AssetsRejected

CrawlSpec == Init /\ [][CrawlNext]_vars

\* ---- the crawl from the single root R1, with the teaser type excluded,
\* assets included and a depth limit the graph does not reach

ScenarioConfigs ==
    [excludedContentTypes : {<<"teaser">>, <<"banner", "teaser">>},
     includeAssetsByDefault : {TRUE},
     maxTraversalDepth : {5},
     requestConcurrency : 0..MaxConc]

ScenarioCall ==
    /\ cState = "idle"
    /\ \E cfg \in ScenarioConfigs, target \in TargetLists :
        /\ config' = cfg
        /\ rootEntryIds' = <<"R1">>
        /\ targetTagIds' = target
        /\ CrawlProceed(cfg, <<[id |-> "R1", depth |-> 0, from |-> NoParent]>>, {})
    /\ UNCHANGED <<visitedAssets, entryRows, expanded, assetFrom, fetchFailed>>
    /\ UNCHANGED <<applyVars, tagVars, rootVars, abandoned, edits, extractVars>>

ScenarioNext ==
    \/ ScenarioCall
    \/ \E i \in 1..Len(batch) : EntryFetched(i)
    \/ \E i \in 1..Len(batch) : EntryFetchFails(i)
    \/ WaveRejects
    \/ WaveResolves
    \/ \E r \in 1..Len(runners) : AssetFetched(r)
    \/ \E r \in 1..Len(runners) : AssetFetchFails(r)
    \/ PoolSettle
    \/ AssetsLoaded
    \/ AssetsRejected

ScenarioSpec == Init /\ [][ScenarioNext]_vars

\* ---- the crawl of the cycle A, E, F, H with a depth limit it does not reach

CycleRootLists == {<<"A">>, <<"F", "F">>, <<"C", "A">>}

CycleConfigs ==
    [excludedContentTypes : {<<>>},
     includeAssetsByDefault : BOOLEAN,
     maxTraversalDepth : {0, 2, 9},
     requestConcurrency : 1..MaxConc]

CycleCall ==
    /\ cState = "idle"
    /\ \E cfg \in CycleConfigs, roots \in CycleRootLists :
        /\ config' = cfg
        /\ rootEntryIds' = roots
        /\ targetTagIds' = <<"t1">>
        /\ CrawlProceed(cfg,
                        [i \in 1..Len(roots) |-> [id |-> roots[i], depth |-> 0, from |-> NoParent]],
                        {})
    /\ UNCHANGED <<visitedAssets, entryRows, expanded, assetFrom, fetchFailed>>
    /\ UNCHANGED <<applyVars, tagVars, rootVars, abandoned, edits, extractVars>>

\* Every step of a running crawl: a pending fetch settles, a wave or the
\* pool settles, the function resumes after its await.
CrawlProgress ==
    \/ \E i \in 1..Len(batch) : EntryFetched(i)
    \/ \E i \in 1..Len(batch) : EntryFetchFails(i)
    \/ WaveRejects
    \/ WaveResolves
    \/ \E r \in 1..Len(runners) : AssetFetched(r)
    \/ \E r \in 1..Len(runners) : AssetFetchFails(r)
    \/ PoolSettle
    \/ AssetsLoaded
    \/ AssetsRejected

CycleNext ==
    \/ CycleCall
    \/ \E i \in 1..Len(batch) : EntryFetched(i)
    \/ \E i \in 1..Len(batch) : EntryFetchFails(i)
    \/ WaveRejects
    \/ WaveResolves
    \/ \E r \in 1..Len(runners) : AssetFetched(r)
    \/ \E r \in 1..Len(runners) : AssetFetchFails(r)
    \/ PoolSettle
    \/ AssetsLoaded
    \/ AssetsRejected

\* Every fetch is answered and every continuation that is ready runs.
FairCycleSpec == Init /\ [][CycleNext]_vars /\ WF_vars(CrawlProgress)

\* ---- deepExtractLinks

ExtractNext == ExtractCall

ExtractSpec == Init /\ [][ExtractNext]_vars

SharedNext == SharedCall

SharedSpec == Init /\ [][SharedNext]_vars

\* ---- resolveTargetTagIds

ResolveNext ==
    \/ ResolveCall
    \/ ListingPage
    \/ ListingFails
    \/ TagCreated

ResolveSpec == Init /\ [][ResolveNext]_vars

\* ---- findRootPagesForLocation

RootsNext ==
    \/ RootsCall
    \/ QueryResolves
    \/ QueryRejects

RootsSpec == Init /\ [][RootsNext]_vars

\* ---- a crawl and then onApply with the selection the dialog opens with

LoadNext ==
    \/ aState = "idle" /\ ScenarioNext
    \/ ApplyInitialSelection
    \/ \E r \in 1..Len(runners) : ItemFetched(r)
    \/ \E r \in 1..Len(runners) : ItemFetchFails(r)
    \/ \E r \in 1..Len(runners) : ItemUpdated(r)
    \/ \E r \in 1..Len(runners) : ItemUpdateFails(r)
    \/ \E r \in 1..Len(runners) : WorkerReturns(r)
    \/ aState # "idle" /\ PoolSettle
    \/ ContentDone
    \/ MediaDone
    \/ Notified

LoadSpec == Init /\ [][LoadNext]_vars

\* ---- onApply

ApplyNext ==
    \/ ApplyCall
    \/ \E r \in 1..Len(runners) : ItemFetched(r)
    \/ \E r \in 1..Len(runners) : ItemFetchFails(r)
    \/ \E r \in 1..Len(runners) : ItemUpdated(r)
    \/ \E r \in 1..Len(runners) : ItemUpdateFails(r)
    \/ \E r \in 1..Len(runners) : ItemPublished(r)
    \/ \E r \in 1..Len(runners) : ItemPublishFails(r)
    \/ \E r \in 1..Len(runners) : WorkerReturns(r)
    \/ PoolSettle
    \/ ContentDone
    \/ MediaDone
    \/ Notified

ApplySpec == Init /\ [][ApplyNext]_vars

\* ---- onApply on items that other editors change after the scan

FreshNext ==
    \/ ItemEdited
    \/ ApplyScanned
    \/ \E r \in 1..Len(runners) : ItemFetched(r)
    \/ \E r \in 1..Len(runners) : ItemFetchFails(r)
    \/ \E r \in 1..Len(runners) : ItemUpdated(r)
    \/ \E r \in 1..Len(runners) : ItemUpdateFails(r)
    \/ \E r \in 1..Len(runners) : ItemPublished(r)
    \/ \E r \in 1..Len(runners) : ItemPublishFails(r)
    \/ \E r \in 1..Len(runners) : WorkerReturns(r)
    \/ PoolSettle
    \/ ContentDone
    \/ MediaDone
    \/ Notified

FreshSpec == Init /\ [][FreshNext]_vars

\* ---- a crawl or an apply whose caller may go away

AbandonNext ==
    \/ aState = "idle" /\ ScenarioNext
    \/ cState = "idle" /\ ApplyNext
    \/ Abandon

AbandonSpec == Init /\ [][AbandonNext]_vars

\* Every step of a running onApply: a pending repository request settles, a
\* worker returns, a pool settles, the notification resolves.
ApplyProgress ==
    \/ \E r \in 1..Len(runners) : ItemFetched(r)
    \/ \E r \in 1..Len(runners) : ItemFetchFails(r)
    \/ \E r \in 1..Len(runners) : ItemUpdated(r)
    \/ \E r \in 1..Len(runners) : ItemUpdateFails(r)
    \/ \E r \in 1..Len(runners) : ItemPublished(r)
    \/ \E r \in 1..Len(runners) : ItemPublishFails(r)
    \/ \E r \in 1..Len(runners) : WorkerReturns(r)
    \/ PoolSettle
    \/ ContentDone
    \/ MediaDone
    \/ Notified

\* Every repository request and every notification settles in the end, and
\* the event loop runs every continuation that is ready.
FairApplySpec == ApplySpec /\ WF_vars(ApplyProgress)

\* ------------------------------------------------------------------ properties of the pool

PoolQuiescent ==
    /\ pState # "idle"
    /\ \A j \in 1..Len(runners) : runners[j].st # "awaiting"

\* C1: the worker is invoked at most once for every item index, and once no
\* worker call has failed and every runner has left its loop, exactly once --
\* for every concurrency, N <= 0 and N above the list length included.
PoolEachItemExactlyOnce ==
    /\ \A i \in DOMAIN pCalls : pCalls[i] <= 1
    /\ (PoolQuiescent /\ pFailed = {}) =>
          /\ DOMAIN pCalls = 0..(Len(pItems) - 1)
          /\ \A i \in DOMAIN pCalls : pCalls[i] = 1 /\ pResults[i] = <<pItems[i + 1]>>

\* C1 witness: a pool of two runners has worked off three items, two of
\* them equal, and resolved.
PoolEachItemExactlyOnceWitness ==
    /\ pState = "resolved"
    /\ Len(pItems) = 3
    /\ pConc = 2
    /\ pItems[1] = pItems[3]

\* C2: when the worker rejects for one item, every other item is still
\* handed to the worker, for every concurrency N >= 1.
PoolFailureSparesOtherItems ==
    (PoolQuiescent /\ pConc >= 1 /\ Cardinality(pFailed) = 1) =>
        \A i \in DOMAIN pCalls : pCalls[i] >= 1

\* C3: the promise returned by promisePool never rejects.
PoolNeverRejects == pState # "rejected"

\* ------------------------------------------------------------------ properties of the crawl

LinkedEntries(id) == Range(LinkGraph[id].entryIds)

LinkedAssets(id) == Range(LinkGraph[id].assetIds)

\* A boundary record by its content type, read off the configuration.
Boundary(id) ==
    Entries[id].ct = "location" \/ Entries[id].ct \in Range(config.excludedContentTypes)

\* The ids reachable from a root by a path of at most d edges; with
\* through = FALSE only along paths whose records before the last one are
\* no boundary records.
RECURSIVE Within(_, _)
Within(d, through) ==
    IF d <= 0 THEN Range(rootEntryIds)
    ELSE LET prev == Within(d - 1, through)
         IN  prev \cup UNION {LinkedEntries(x) : x \in {y \in prev : through \/ ~Boundary(y)}}

\* The least number of edges from a root to id along non-boundary records.
Dist(id) ==
    CHOOSE d \in 0..Cardinality(EntryIds) :
        /\ id \in Within(d, FALSE)
        /\ d = 0 \/ id \notin Within(d - 1, FALSE)

RowIds(rows) == {rows[i].id : i \in 1..Len(rows)}

RowOf(rows, id) == rows[CHOOSE i \in 1..Len(rows) : rows[i].id = id]

\* The records whose fetch has come back with the entry.
Fetched ==
    {id \in visitedEntries :
        /\ id \notin fetchFailed
        /\ \A i \in 1..Len(batch) : batch[i].id = id => batch[i].st # "fetching"}

\* Every queued record and every pending asset was put there by a record
\* whose links were extracted, and is one of that record's links.
OnlyLinksOfExpanded ==
    /\ \A i \in 1..Len(queue) :
          \/ queue[i].from = NoParent /\ queue[i].depth = 0
          \/ /\ queue[i].from \in expanded
             /\ queue[i].id \in LinkedEntries(queue[i].from)
             /\ queue[i].depth = procDepth[queue[i].from] + 1
    /\ \A i \in 1..Len(batch) :
          \/ batch[i].from = NoParent /\ batch[i].depth = 0
          \/ /\ batch[i].from \in expanded
             /\ batch[i].id \in LinkedEntries(batch[i].from)
    /\ Range(visitedAssets) = {af[1] : af \in assetFrom}
    /\ \A af \in assetFrom : af[2] \in expanded /\ af[1] \in LinkedAssets(af[2])

\* C4: every record id is fetched at most once in a crawl and has at most
\* one inventory row, exactly one once its fetch has come back.
EachRecordVisitedOnce ==
    /\ \A id \in EntryIds : fetchCount[id] <= 1
    /\ \A id \in EntryIds : Cardinality({i \in 1..Len(entryRows) : entryRows[i].id = id}) <= 1
    /\ \A id \in Fetched : fetchCount[id] = 1 /\ id \in RowIds(entryRows)
    /\ RowIds(entryRows) \subseteq visitedEntries

\* C4 witness: a finished crawl whose root list names one id twice in the
\* first batch, and which met F, linked from C, from E and from itself.
EachRecordVisitedOnceWitness ==
    /\ cState = "done"
    /\ Len(rootEntryIds) = 3
    /\ rootEntryIds[1] = rootEntryIds[2]
    /\ config.requestConcurrency >= 2
    /\ {"C", "E", "F"} \subseteq expanded

\* C5: the depth a record is processed at is its least distance from a root.
ProcessedAtMinimumDepth ==
    \A id \in visitedEntries : procDepth[id] = Dist(id)

\* C6: every row is within maxTraversalDepth edges of a root, and a record
\* processed at the depth limit is reported but contributes no link.
DepthBound ==
    /\ RowIds(entryRows) \subseteq Within(config.maxTraversalDepth, TRUE)
    /\ \A id \in visitedEntries : procDepth[id] <= config.maxTraversalDepth
    /\ \A id \in expanded : procDepth[id] < config.maxTraversalDepth
    /\ \A id \in Fetched : id \in RowIds(entryRows)
    /\ OnlyLinksOfExpanded

\* C6 witness: a finished crawl reported a record processed at a depth limit
\* of at least 1, a record that holds record and asset links.
DepthBoundWitness ==
    /\ cState = "done"
    /\ config.maxTraversalDepth >= 1
    /\ config.includeAssetsByDefault
    /\ \E id \in RowIds(entryRows) :
          /\ procDepth[id] = config.maxTraversalDepth
          /\ ~Boundary(id)
          /\ LinkedEntries(id) \ visitedEntries # {}
          /\ LinkedAssets(id) # {}

\* C7: a visited boundary record (excluded content type, or Location) has a
\* row with excluded = true and no missing tags, and contributes no link.
ExclusionBoundary ==
    /\ \A id \in Fetched : Boundary(id) =>
          /\ id \in RowIds(entryRows)
          /\ RowOf(entryRows, id).excluded
          /\ RowOf(entryRows, id).missingTagIds = <<>>
    /\ \A id \in expanded : ~Boundary(id)
    /\ OnlyLinksOfExpanded

\* C7 witness: a finished crawl reported the Location record B and the
\* excluded teaser E, both holding links, with assets included.
ExclusionBoundaryWitness ==
    /\ cState = "done"
    /\ config.includeAssetsByDefault
    /\ config.maxTraversalDepth >= 2
    /\ {"B", "E"} \subseteq RowIds(entryRows)
    /\ Boundary("E")
    /\ LinkedEntries("E") # {} /\ LinkedEntries("B") # {} /\ LinkedAssets("B") # {}
    /\ Range(targetTagIds) \ Range(Entries["B"].tags) # {}

\* The tag ids an entity carries, read off the repository.
StoredTagIds(entity) == {entity.tags[i] : i \in 1..Len(entity.tags)} \ {""}

RowTagsExact(row, entity) ==
    /\ Range(row.existingTagIds) = StoredTagIds(entity)
    /\ Range(row.missingTagIds) = Range(targetTagIds) \ StoredTagIds(entity)
    /\ Range(row.existingTagIds) \cap Range(row.missingTagIds) = {}
    /\ Range(targetTagIds) \subseteq Range(row.existingTagIds) \cup Range(row.missingTagIds)

\* C8: a non-excluded row reports as missing exactly the target tag ids the
\* item did not carry when fetched.
MissingIsTargetMinusExisting ==
    /\ \A i \in 1..Len(entryRows) :
          ~entryRows[i].excluded => RowTagsExact(entryRows[i], Entries[entryRows[i].id])
    /\ \A i \in 1..Len(assetRows) :
          ~assetRows[i].excluded => RowTagsExact(assetRows[i], Assets[assetRows[i].id])

\* C8 witness: a finished crawl holds a record row and an asset row that
\* each carry one target tag and miss another.
MissingIsTargetMinusExistingWitness ==
    /\ cState = "done"
    /\ \E i \in 1..Len(entryRows) :
          /\ ~entryRows[i].excluded
          /\ entryRows[i].missingTagIds # <<>>
          /\ Range(entryRows[i].existingTagIds) \cap Range(targetTagIds) # {}
    /\ \E i \in 1..Len(assetRows) :
          /\ assetRows[i].missingTagIds # <<>>
          /\ Range(assetRows[i].existingTagIds) \cap Range(targetTagIds) # {}

\* C9: when no fetch fails, a finished crawl has a row for every record
\* within maxTraversalDepth edges of a root along non-boundary records.
CrawlComplete ==
    (cState = "done" /\ fetchFailed = {}) =>
        Within(config.maxTraversalDepth, FALSE) \subseteq RowIds(entryRows)

\* C10: a failed fetch never makes the crawl fail.
FetchFailureDoesNotAbortCrawl ==
    fetchFailed # {} => cState # "failed"

\* ------------------------------------------------------------------ the excluded-branch scenario

\* C11: the crawl from the single root R1 (R1 links to R2 of an excluded type
\* and to R3, R3 links to the asset M1, R2 holds links of its own, depth limit
\* 5, assets included) returns exactly the record rows R1, R2 and R3, R2
\* marked excluded, and the asset row M1; nothing linked only from R2 is
\* fetched or listed.
ScenarioInventory ==
    /\ rootEntryIds = <<"R1">> =>
          /\ visitedEntries \subseteq {"R1", "R2", "R3"}
          /\ Range(visitedAssets) \subseteq {"M1"}
          /\ fetchCount["R4"] = 0
          /\ "R2" \notin expanded
    /\ (rootEntryIds = <<"R1">> /\ cState = "done") =>
          /\ Len(entryRows) = 3
          /\ RowIds(entryRows) = {"R1", "R2", "R3"}
          /\ \A i \in 1..Len(entryRows) : entryRows[i].excluded <=> entryRows[i].id = "R2"
          /\ Len(assetRows) = 1
          /\ RowIds(assetRows) = {"M1"}

ScenarioInventoryWitness ==
    /\ rootEntryIds = <<"R1">>
    /\ cState = "done"
    /\ Len(entryRows) = 3
    /\ Len(assetRows) = 1
    /\ LinkGraph["R2"] # NoLinks

\* ------------------------------------------------------------------ properties of onApply

NoRepositoryCall == \A id \in DOMAIN calls : calls[id] = <<>>

\* C12: when the target tag id list is empty, or no id is selected in either
\* collection, onApply reports an error, issues no repository call and is
\* never in the applying state.
ApplyPrecondition ==
    (aState # "idle" /\ (Len(targetIds) = 0 \/ Len(selectedContentIds) + Len(selectedMediaIds) = 0)) =>
        /\ aState = "returned"
        /\ applyError # ""
        /\ NoRepositoryCall
        /\ pState = "idle"
        /\ ~isApplying
        /\ ~applyDone

ApplyPreconditionWitness ==
    /\ aState = "returned"
    /\ Len(targetIds) > 0
    /\ Len(selectedContentIds) + Len(selectedMediaIds) = 0
    /\ applyError = "nothingSelected"

\* C13: when onApply has finished, in each collection the number of selected
\* items equals updated + skippedExcluded + failed.
ApplyTallyBalanced ==
    applyDone =>
        \A coll \in {"entries", "assets"} :
            LET tally == applySummary[1][coll]
            IN  tally.selected = tally.updated + tally.skippedExcluded + tally.failed

\* The ids of `selected` whose row in `rows` is excluded.
SelectedExcluded(selected, rows) ==
    {id \in Range(selected) : RowExcluded(RowById(rows, id))}

IsDuplicateFree(s) == \A i, j \in 1..Len(s) : s[i] = s[j] => i = j

\* The item as a scan reads it: metadata.tags as the list of the links' ids.
ScanView(item) == [tags |-> [i \in 1..Len(item.tags) |-> item.tags[i].id]]

\* The ids whose update resolved in this run.
UpdatedIds == {id \in ItemIds : store[id].version # StoreInit[id].version}

\* C15: with a duplicate-free stored tag list and a duplicate-free target
\* list, an item's tag list after one apply is duplicate-free and holds every
\* target id; merging the same targets into it once more yields the same
\* list, and a scan of it finds no target missing.
ApplyIdempotent ==
    (IsDuplicateFree(targetIds) /\ \A id \in ItemIds : IsDuplicateFree(StoreInit[id].tags)) =>
        \A id \in UpdatedIds :
            LET tags == store[id].tags
            IN  /\ IsDuplicateFree(tags)
                /\ Range(targetIds) \subseteq Range(ExistingIds(tags))
                /\ MergedLinks(tags, targetIds) = tags
                /\ MissingTagIds(targetIds, getTagIdsFromMetadata(ScanView(store[id]))) = <<>>

ApplyIdempotentWitness ==
    /\ applyDone
    /\ Len(targetIds) = 2
    /\ \E id \in UpdatedIds :
          /\ Len(store[id].tags) = Len(StoreInit[id].tags) + 1
          /\ Len(StoreInit[id].tags) > 0

Ops(id) == [i \in 1..Len(calls[id]) |-> calls[id][i].op]

\* C16: a publish is issued for an item exactly when preservePublishState is
\* on, the fetched item had a publishedVersion and its update succeeded; it
\* is issued after that item's update and carries the revision the update
\* returned; with preservePublishState off no publish is issued.
RepublishRule ==
    \A id \in ItemIds :
        /\ ("publish" \in Range(Ops(id))) <=>
               (preservePublishState /\ WasPublished(StoreInit[id]) /\ id \in UpdatedIds)
        /\ "publish" \in Range(Ops(id)) =>
               /\ Ops(id) = <<"get", "update", "publish">>
               /\ calls[id][3].version = calls[id][2].version + 1
               /\ store[id].version > calls[id][2].version
        /\ ~preservePublishState => store[id].publishedVersion = StoreInit[id].publishedVersion

RepublishRuleWitness ==
    /\ applyDone
    /\ Ops("e1") = <<"get", "update", "publish">>
    /\ Ops("e2") = <<"get", "update">>
    /\ store["e1"].publishedVersion = StoreInit["e1"].version + 1

\* The actionable ids handed to the pool of a collection.
Actionable(coll) == IF coll = "entries" THEN actionableContentIds ELSE actionableMediaIds

\* The fetch of exactly one item of the collection failed and no other call did.
OnlyOneFetchFailed(coll) ==
    /\ failures = 1
    /\ \E id \in Range(Actionable(coll)) : Ops(id) = <<"get">>

\* C17: when the fetch of exactly one of the N actionable items of a
\* collection fails and every other call succeeds, onApply finishes
\* normally with failed = 1 and updated = N - 1 for that collection, and
\* every other item of the collection has been updated.
OneFailureIsolated ==
    \A coll \in {"entries", "assets"} :
        (aState \in {"notifying", "returned"} /\ OnlyOneFetchFailed(coll)) =>
            /\ applyDone
            /\ applyError = ""
            /\ applySummary[1][coll].failed = 1
            /\ applySummary[1][coll].updated = Len(Actionable(coll)) - 1
            /\ \A id \in Range(Actionable(coll)) :
                   Ops(id) # <<"get">> =>
                       /\ id \in UpdatedIds
                       /\ Range(targetIds) \subseteq Range(ExistingIds(store[id].tags))

OneFailureIsolatedWitness ==
    /\ aState = "returned"
    /\ OnlyOneFetchFailed("entries")
    /\ Len(actionableContentIds) = 3
    /\ applySummary[1].entries.updated = 2

Dispatched == aState \in {"content", "media"}

ApplyIsDone ==
    /\ aState = "returned"
    /\ applySummary # <<>>
    /\ applyDone
    /\ ~isApplying
    /\ applyError = ""

\* C18: once onApply has handed an item to the pool, it eventually reaches
\* Done -- the summary set, applyDone true, isApplying false -- whatever the
\* repository calls do, and it never ends in an error state.
ApplyReachesDone ==
    /\ Dispatched ~> ApplyIsDone
    /\ [](isApplying => applyError = "")

ApplyReachesDoneWitness ==
    /\ ApplyIsDone
    /\ failures > 0
    /\ applySummary[1].entries.failed + applySummary[1].assets.failed > 0

\* ------------------------------------------------------------------ properties of resolveTargetTagIds

\* The distinct non-empty strings of the current input.
InputNames == Range(rInput) \ {""}

\* The names the cached listing holds.
CachedNames == IF tagNameCache = <<>> THEN {} ELSE DOMAIN tagNameCache[1]

\* C19: in name mode every distinct non-empty input name lands in exactly one
\* of the two outputs: its id in tagIds when the cached listing holds the
\* name, the name in missing otherwise; the two outputs are determined by the
\* set of non-empty input names alone, whatever their order and multiplicity.
NameModeResolution ==
    (rState = "returned" /\ rMode = "name") =>
        /\ tagNameCache # <<>>
        /\ Range(rResult.tagIds) = {tagNameCache[1][n] : n \in InputNames \cap CachedNames}
        /\ Len(rResult.tagIds) = Cardinality(InputNames \cap CachedNames)
        /\ Range(rResult.missing) = InputNames \ CachedNames
        /\ Len(rResult.missing) = Cardinality(InputNames \ CachedNames)

NameModeResolutionWitness ==
    /\ rState = "returned"
    /\ rMode = "name"
    /\ Len(rInput) = 2
    /\ rInput[1] = rInput[2]
    /\ rResult.tagIds = <<"tParis">>

\* C20 as stated: in id mode the returned tagIds are exactly the distinct
\* input strings, missing is empty, no tag listing request is issued and the
\* cache is left as it was.
IdModeReturnsEveryInput ==
    [][(rCalls' = rCalls + 1 /\ rMode' = "id") =>
          /\ rState' = "returned"
          /\ Range(rResult'.tagIds) = Range(rInput')
          /\ IsDuplicateFree(rResult'.tagIds)
          /\ rResult'.missing = <<>>
          /\ listRequests' = listRequests
          /\ tagNameCache' = tagNameCache]_vars

\* C20, amended: in id mode the returned tagIds are exactly the distinct
\* non-empty input strings, unchanged; missing is empty, no tag listing
\* request is issued and the cache is left as it was.
IdModeReturnsNonEmptyInput ==
    [][(rCalls' = rCalls + 1 /\ rMode' = "id") =>
          /\ rState' = "returned"
          /\ Range(rResult'.tagIds) = Range(rInput') \ {""}
          /\ IsDuplicateFree(rResult'.tagIds)
          /\ rResult'.missing = <<>>
          /\ listRequests' = listRequests
          /\ tagNameCache' = tagNameCache]_vars

IdModeWitness ==
    /\ rState = "returned"
    /\ rMode = "id"
    /\ rInput = <<"", "Nowhere">>
    /\ rResult.tagIds = <<"Nowhere">>
    /\ tagNameCache # <<>>
    /\ listRequests = 2

\* What the space would answer for a name now: the id of the last tag of
\* that name it lists.
ListedNow == AddItems(EmptyMap, Page(tagListing, 0, tagListing))

\* C21: once a name-mode resolution has loaded the tag listing, no later
\* resolution issues a tag listing request and the cached map is never
\* replaced or changed; a name the loaded map does not hold is reported
\* missing by every later name-mode resolution, also when the space has
\* got a tag of that name since.
TagCacheFrozen ==
    /\ [][tagNameCache # <<>> =>
            /\ tagNameCache' = tagNameCache
            /\ listRequests' = listRequests]_vars
    /\ [](rState = "returned" /\ rMode = "name" =>
            \A name \in InputNames \ CachedNames : name \in Range(rResult.missing))

\* The map was loaded from a space of exactly one page, the tag Paris was
\* created afterwards, and a later name-mode resolution asked for Paris.
TagCacheFrozenWitness ==
    /\ tagsCreated # <<>>
    /\ rCalls > tagsCreated[1]
    /\ rState = "returned"
    /\ rMode = "name"
    /\ Found(ListedNow, "Paris")
    /\ "Paris" \in Range(rResult.missing)
    /\ rResult.tagIds = <<>>

\* The (content type, field) combinations of the configuration.
Combos ==
    {<<ct, fieldId>> : ct \in Range(rootConfig.rootContentTypes),
                       fieldId \in Range(rootConfig.locationLinkFieldIds)}

\* The records the space matches through a combination.
Matches(combo) ==
    IF Known(combo) /\ repo[combo] # NoField
    THEN {MatchId(combo[1], combo[2], i) : i \in 1..repo[combo]}
    ELSE {}

MatchesOfType(ct) == UNION {Matches(c) : c \in {d \in Combos : d[1] = ct}}

MissingField(k) == rejections[k].msg = NoFieldMessage(rejections[k].field)

\* C22: a query that fails with 'No field with id' is swallowed: the call
\* does not fail, the combination contributes no record and every other
\* combination is still queried and contributes its matches; a query that
\* fails with anything else makes the call fail.
FieldErrorSwallowed ==
    /\ fState = "failed" <=> \E k \in 1..Len(rejections) : ~MissingField(k)
    /\ \A k \in 1..Len(rejections) :
          MissingField(k) => repo[<<rejections[k].ct, rejections[k].field>>] = NoField
    /\ fState = "returned" =>
          /\ \A c \in Combos : Known(c)
          /\ Range(foundRootIds) = UNION {Matches(c) : c \in Combos}

\* The first combination failed with a missing field and the call returned
\* the records of a later one.
FieldErrorSwallowedWitness ==
    /\ fState = "returned"
    /\ rejections # <<>>
    /\ MissingField(1)
    /\ rejections[1].ct = rootConfig.rootContentTypes[1]
    /\ rejections[1].field = rootConfig.locationLinkFieldIds[1]
    /\ Len(foundRootIds) > RootPageLimit

\* C23: when no query fails, the returned root ids are exactly the records
\* matched through any combination, each once; perContentType[ct] is the
\* number of distinct records of type ct matched through any field; the
\* requests of a combination are those for skip 0, limit, 2 * limit, ... up
\* to the first page shorter than the limit.
RootsExact ==
    /\ \A k \in 1..Len(queries) :
          LET c == <<queries[k].ct, queries[k].field>>
          IN  Known(c) /\ repo[c] # NoField =>
                 queries[k].skip <= (repo[c] \div RootPageLimit) * RootPageLimit
    /\ fState = "returned" /\ rejections = <<>> =>
          /\ Range(foundRootIds) = UNION {Matches(c) : c \in Combos}
          /\ IsDuplicateFree(foundRootIds)
          /\ DOMAIN perContentType = Range(rootConfig.rootContentTypes)
          /\ \A ct \in DOMAIN perContentType :
                perContentType[ct] = Cardinality(MatchesOfType(ct))
          /\ \A c \in Combos :
                {queries[k].skip : k \in {j \in 1..Len(queries) :
                                             <<queries[j].ct, queries[j].field>> = c}}
                    = {p * RootPageLimit : p \in 0..(repo[c] \div RootPageLimit)}

\* Two types and two fields: the records of one type match through both
\* fields, a full page each with all but two records in common; the other
\* type matches nothing through one field and a page and a record through
\* the other.
RootsExactWitness ==
    /\ fState = "returned"
    /\ rejections = <<>>
    /\ rootConfig.rootContentTypes = <<"page", "article">>
    /\ rootConfig.locationLinkFieldIds = <<"location", "venue">>
    /\ repo[<<"page", "location">>] = RootPageLimit
    /\ repo[<<"page", "venue">>] = RootPageLimit
    /\ repo[<<"article", "location">>] = 0
    /\ repo[<<"article", "venue">>] = RootPageLimit + 1
    /\ perContentType["page"] = RootPageLimit + 1

\* ------------------------------------------------------------------ the pool and its workers

\* C26: when the promise returned by promisePool has settled, no worker
\* call started by that pool is still in flight; a worker call is started
\* only by a runner whose previous call has come back, so none starts
\* afterwards either.
PoolSettlesAfterWorkers ==
    pState \in {"resolved", "rejected"} =>
        \A j \in 1..Len(runners) : runners[j].st # "awaiting"

\* ------------------------------------------------------------------ the order of the crawl

QueuedIds == {queue[i].id : i \in 1..Len(queue)}

\* C27: a record fetch is issued only when every record of the batch
\* before has come back: its row is recorded and, when its links were
\* extracted, each linked record is visited or waits in the queue.
WaveBarrier ==
    [][fetchCount' # fetchCount =>
          \A i \in 1..Len(batch) :
              /\ batch[i].st \in {"done", "skipped"}
              /\ batch[i].id \in RowIds(entryRows)
              /\ batch[i].st = "done" /\ batch[i].id \in expanded =>
                    LinkedEntries(batch[i].id) \subseteq visitedEntries \cup QueuedIds]_vars

\* A batch of two records found through links is in flight after the rows
\* of two records before them were recorded.
WaveBarrierWitness ==
    /\ cState = "wave"
    /\ Len(batch) = 2
    /\ \A i \in 1..Len(batch) : batch[i].depth > 0 /\ batch[i].st = "fetching"
    /\ Cardinality(RowIds(entryRows)) >= 2

\* The number of asset.get calls issued for an asset id.
AssetFetches(id) ==
    Cardinality({i \in DOMAIN pCalls : pItems[i + 1] = id /\ pCalls[i] >= 1})

AssetRowsOf(id) == {k \in 1..Len(assetRows) : assetRows[k].id = id}

MediaPhaseInvariant ==
    /\ pState # "idle" =>
          /\ queue = <<>>
          /\ batch = <<>>
          /\ config.includeAssetsByDefault
          /\ pItems = visitedAssets
    /\ \A i \in DOMAIN pCalls : pCalls[i] <= 1
    /\ \A id \in AssetIds : AssetFetches(id) <= 1
    /\ ~config.includeAssetsByDefault => assetRows = <<>>
    /\ \A k \in 1..Len(assetRows) :
          \E rec \in expanded :
              /\ assetRows[k].id \in LinkedAssets(rec)
              /\ rec \in RowIds(entryRows)
              /\ ~Boundary(rec)
              /\ procDepth[rec] < config.maxTraversalDepth
    /\ cState = "done" /\ config.includeAssetsByDefault =>
          /\ RowIds(assetRows) = Range(visitedAssets)
          /\ \A id \in Range(visitedAssets) :
                AssetFetches(id) = 1 /\ Cardinality(AssetRowsOf(id)) = 1

\* C28: no asset is fetched before the record queue is exhausted and the
\* last batch has come back; every pending asset id is fetched at most once,
\* and in a crawl that returns exactly once, with exactly one row; asset
\* rows exist only for assets linked from an expanded record that is not
\* excluded and lies below the depth limit; with includeAssetsByDefault
\* false no asset is fetched and there is no asset row; while the assets are
\* fetched nothing enters the queue, the visited sets or the record rows.
MediaPhase ==
    /\ []MediaPhaseInvariant
    /\ [][(pState # "idle") =>
            /\ queue' = <<>>
            /\ visitedEntries' = visitedEntries
            /\ visitedAssets' = visitedAssets
            /\ entryRows' = entryRows]_vars

\* A crawl with assets has returned: an asset linked from three expanded
\* records has its row, the asset of a visited Location record has none.
MediaPhaseWitness ==
    /\ cState = "done"
    /\ config.includeAssetsByDefault
    /\ Cardinality({rec \in expanded : "M1" \in LinkedAssets(rec)}) = 3
    /\ Cardinality(AssetRowsOf("M1")) = 1
    /\ "B" \in RowIds(entryRows)
    /\ "M2" \notin RowIds(assetRows)

\* ------------------------------------------------------------------ the phases of onApply

PhaseRank(phase) ==
    CASE phase = "preparing" -> 1
      [] phase = "content" -> 2
      [] phase = "media" -> 3
      [] phase = "done" -> 4
      [] OTHER -> 0

\* The ids of the media table and those the selection can hold besides.
MediaIdsOfCalls == DOMAIN calls \ RowIds(ContentRows)

\* Every dispatched record item has run to the end of its worker.
ContentComplete ==
    /\ aState \in {"media", "notifying", "returned"}
    /\ processed.entries = Len(actionableContentIds)
    /\ \A id \in Range(actionableContentIds) : calls[id] # <<>>

\* Every media item has run to the end of its worker.
MediaComplete ==
    /\ processed.assets = Len(actionableMediaIds)
    /\ \A id \in Range(actionableMediaIds) : calls[id] # <<>>
    /\ \A r \in 1..Len(runners) : runners[r].st = "done"

\* C29: the phases handed to the progress status come in the order
\* Preparing, Updating content, Updating media, Done, a phase without items
\* being left out; no call is issued for a media item before every
\* dispatched record item has run through its worker, and Done is reported
\* only when every media item has.
PhaseOrder ==
    /\ \A i, j \in 1..Len(statusLog) : i < j => PhaseRank(statusLog[i]) < PhaseRank(statusLog[j])
    /\ isApplying => statusLog[1] = "preparing"
    /\ "content" \in Range(statusLog) => Len(actionableContentIds) > 0
    /\ isApplying /\ Len(actionableContentIds) > 0 => "content" \in Range(statusLog)
    /\ "media" \in Range(statusLog) => Len(actionableMediaIds) > 0
    /\ (\E id \in MediaIdsOfCalls : calls[id] # <<>>) =>
          /\ "media" \in Range(statusLog)
          /\ ContentComplete
    /\ (applyDone \/ "done" \in Range(statusLog) \/ applyStatus.phase = "done") =>
          /\ ContentComplete
          /\ MediaComplete
          /\ statusLog[Len(statusLog)] = "done"
          /\ Len(actionableMediaIds) > 0 => "media" \in Range(statusLog)

\* Two records and a media item went through the four phases, one call
\* having failed.
PhaseOrderWitness ==
    /\ aState = "returned"
    /\ statusLog = <<"preparing", "content", "media", "done">>
    /\ Len(actionableContentIds) >= 2
    /\ Len(actionableMediaIds) = 1
    /\ failures = 1

\* The ids of the selection that have a row, not excluded, with a tag to add.
HasActionableRow(id) ==
    \E i \in 1..Len(ContentRows \o MediaRows) :
        LET row == (ContentRows \o MediaRows)[i]
        IN  row.id = id /\ ~row.excluded /\ row.willAdd

Selected == Range(selectedContentIds) \cup Range(selectedMediaIds)

\* C30: only a selected id whose row is not excluded and had a missing tag
\* at scan time is ever fetched, updated or published, and the repository
\* changes for no other id; when no selected id is such, onApply makes no
\* repository call at all.
OnlyActionableTouched ==
    /\ \A id \in DOMAIN calls :
          calls[id] # <<>> => id \in Selected /\ HasActionableRow(id)
    /\ \A id \in ItemIds :
          ~(id \in Selected /\ HasActionableRow(id)) => store[id] = StoreInit[id]
    /\ (aState # "idle" /\ ~\E id \in Selected : HasActionableRow(id)) =>
          /\ NoRepositoryCall
          /\ pState = "idle"
          /\ store = StoreInit
          /\ ~isApplying

\* An apply over a selection that holds an excluded row, a row with nothing
\* to add and an id without a row has finished: only the two other ids
\* were touched.
OnlyActionableTouchedWitness ==
    /\ aState = "returned"
    /\ applyDone
    /\ {"eX", "mOk", "mZ", "e1", "m1"} \subseteq Selected
    /\ calls["e1"] # <<>>
    /\ calls["m1"] # <<>>
    /\ calls["eX"] = <<>> /\ calls["mOk"] = <<>> /\ calls["mZ"] = <<>>

\* ------------------------------------------------------------------ requests in flight

\* The entry.get and asset.get requests of the crawl that are not answered yet.
CrawlInFlight ==
    Cardinality({i \in 1..Len(batch) : batch[i].st = "fetching"})
    + (IF aState = "idle"
       THEN Cardinality({r \in 1..Len(runners) : runners[r].st = "awaiting"})
       ELSE 0)

\* The get, update and publish requests of onApply that are not answered yet.
ApplyInFlight ==
    Cardinality({r \in 1..Len(work) : work[r].stage \in {"get", "update", "publish"}})

\* C25: the crawl never has more than max(1, requestConcurrency) requests
\* in flight, in its record batches and in its asset pool; onApply never
\* has more than 4, whatever requestConcurrency is.
BoundedRequests ==
    /\ aState = "idle" =>
          /\ CrawlInFlight <= (IF config.requestConcurrency >= 1
                               THEN config.requestConcurrency ELSE 1)
          /\ ApplyInFlight = 0
    /\ aState # "idle" =>
          /\ ApplyInFlight <= 4
          /\ Cardinality({i \in 1..Len(batch) : batch[i].st = "fetching"}) = 0

\* After a crawl with requestConcurrency 1 onApply has four of its five
\* records in flight.
BoundedRequestsWitness ==
    /\ cState = "done"
    /\ config.requestConcurrency = 1
    /\ aState = "content"
    /\ Len(pItems) = 5
    /\ ApplyInFlight = 4

\* ------------------------------------------------------------------ cancellation

\* C24: once the caller has abandoned a crawl or an apply, no further
\* write is made to the results of the operation: the visited sets, the
\* queue, the inventory rows, the tally counters and the progress status
\* stay as they are.
NoWriteAfterAbandon ==
    [][abandoned =>
          /\ visitedEntries' = visitedEntries
          /\ visitedAssets' = visitedAssets
          /\ entryRows' = entryRows
          /\ assetRows' = assetRows
          /\ summary' = summary
          /\ processed' = processed
          /\ applyStatus' = applyStatus]_vars

\* ------------------------------------------------------------------ the fresh item state

TagIdsOf(item) == {item.tags[i].id : i \in 1..Len(item.tags)}

Lacking(item, target) == SelectSeq(target, LAMBDA t : t \notin TagIdsOf(item))

\* C31: the document onApply sends in the update of an item is the item as
\* it was fetched in this run with the target ids it lacks appended to its
\* tag list: the fetched tag links come first, unchanged and in their order,
\* tags added by other editors after the scan included; the revision and the
\* published revision are the fetched ones; and the tag list the repository
\* holds after the update is the one that was sent.
FreshStateWritten ==
    [][\A r \in 1..Len(runners) :
          /\ ItemFetched(r) =>
                LET id == ItemOf(r)
                    fetched == store[id]
                    written == work'[r].doc
                    lacking == Lacking(fetched, targetIds)
                    n == Len(fetched.tags)
                IN  /\ Len(written.tags) = n + Len(lacking)
                    /\ \A i \in 1..n : written.tags[i] = fetched.tags[i]
                    /\ \A j \in 1..Len(lacking) :
                          written.tags[n + j] = [linkType |-> "Tag", id |-> lacking[j]]
                    /\ written.version = fetched.version
                    /\ written.publishedVersion = fetched.publishedVersion
                    /\ calls'[id] = Append(calls[id], Call("update", fetched.version))
          /\ ItemUpdated(r) =>
                /\ store'[ItemOf(r)].tags = work[r].doc.tags
                /\ store'[ItemOf(r)].publishedVersion = store[ItemOf(r)].publishedVersion]_vars

\* The update of e2 is under way with the tag t9, which another editor added
\* after the scan, between the tag the scan saw and the target tag e2 lacked.
FreshStateWitness ==
    /\ edits > 0
    /\ \E r \in 1..Len(work) :
        /\ work[r].stage = "update"
        /\ ItemOf(r) = "e2"
        /\ work[r].doc.tags = Item(<<"t2", "t9", "t1">>, 0, 0).tags
        /\ work[r].doc.version = StoreInit["e2"].version + 1

\* ------------------------------------------------------------------ termination of the crawl

\* C32: a crawl that has been started returns or throws: on the record
\* graph with the cycle A, E, F, H, the self-link of F and the records F and
\* M1 reached by several paths, for every requestConcurrency from 1 up and a
\* maxTraversalDepth of 0, of 2 and beyond the length of the cycle, provided
\* every fetch is answered.
CrawlTerminates == (cState \in {"wave", "assets"}) ~> (cState \in {"done", "failed"})

\* The crawl from A with depth limit 9 has returned after walking the whole
\* cycle, each record of it fetched once.
CrawlTerminatesWitness ==
    /\ cState = "done"
    /\ rootEntryIds = <<"A">>
    /\ config.maxTraversalDepth = 9
    /\ {"A", "E", "F", "H"} \subseteq expanded
    /\ \A id \in {"A", "E", "F", "H"} : fetchCount[id] = 1

\* ------------------------------------------------------------------ properties of deepExtractLinks

\* A typed link node: an object whose sys says Link, names the link type
\* and holds an id.
LinkNode(v, linkType) ==
    /\ v.kind = "obj"
    /\ \E i \in 1..Len(v.keys) :
        /\ v.keys[i] = "sys"
        /\ LET sys == v.kids[i]
           IN  /\ sys.kind = "obj"
               /\ \E j \in 1..Len(sys.keys) : sys.keys[j] = "type" /\ sys.kids[j] = Str("Link")
               /\ \E j \in 1..Len(sys.keys) :
                     sys.keys[j] = "linkType" /\ sys.kids[j] = Str(linkType)
               /\ \E j \in 1..Len(sys.keys) :
                     sys.keys[j] = "id" /\ sys.kids[j].kind = "str" /\ sys.kids[j].s # ""

LinkNodeId(v) ==
    LET sys == v.kids[CHOOSE i \in 1..Len(v.keys) : v.keys[i] = "sys"]
    IN  sys.kids[CHOOSE j \in 1..Len(sys.keys) : sys.keys[j] = "id"].s

\* The ids of the link nodes of the given type found by walking arrays by
\* their elements and objects by the values of all their keys, without
\* entering a link node.
RECURSIVE LinksFound(_, _)
LinksFound(v, linkType) ==
    IF LinkNode(v, "Entry") \/ LinkNode(v, "Asset")
    THEN IF LinkNode(v, linkType) THEN {LinkNodeId(v)} ELSE {}
    ELSE IF v.kind \in {"arr", "obj"}
    THEN UNION {LinksFound(v.kids[i], linkType) : i \in 1..Len(v.kids)}
    ELSE {}

\* C33: after deepExtractLinks(value, out) on empty sets, out.entryIds holds
\* exactly the ids of the Entry links and out.assetIds exactly the ids of the
\* Asset links found by walking the arrays and objects of the value, each id
\* once; a link node is not entered, and scalars, null, undefined and empty
\* arrays, objects and strings add nothing.
ExtractExact ==
    xValue # <<>> =>
        /\ Range(xOut.entryIds) = LinksFound(xValue[1], "Entry")
        /\ Range(xOut.assetIds) = LinksFound(xValue[1], "Asset")
        /\ Len(xOut.entryIds) = Cardinality(Range(xOut.entryIds))
        /\ Len(xOut.assetIds) = Cardinality(Range(xOut.assetIds))
        /\ xValue[1].kind \in {"undefined", "null", "str", "num"} => xOut = NoLinks
        /\ xValue[1].kids = <<>> => xOut = NoLinks

\* An object holding the link E1 beside an array that holds E1 again behind
\* a link node that carries the asset link M2: E1 and E2 are collected once
\* each, M2 is not.
ExtractExactWitness ==
    /\ xValue = <<Obj(<<"data", "target">>,
                      <<EntryLink("E1"),
                        Arr(<<LinkWith("E2", AssetLink("M2")), EntryLink("E1")>>)>>)>>
    /\ xOut = [entryIds |-> <<"E1", "E2">>, assetIds |-> <<>>]

\* The addresses a cell refers to, and those it reaches in up to k steps.
RefsOf(heap, a) == {heap[a].kids[i].kids[1] : i \in {j \in 1..Len(heap[a].kids) : heap[a].kids[j].kind = "ref"}}

RECURSIVE ReachedIn(_, _, _)
ReachedIn(heap, from, k) ==
    IF k = 0 THEN from
    ELSE ReachedIn(heap, from \cup UNION {RefsOf(heap, a) : a \in from}, k - 1)

ReachedFrom(heap, a) == ReachedIn(heap, RefsOf(heap, a), Len(heap))

\* An array or object reached from the value is reachable from itself.
HasCycle(heap) == \E a \in ReachedIn(heap, {1}, Len(heap)) : a \in ReachedFrom(heap, a)

LinksHeld(heap, linkType) ==
    UNION {{LinkNodeId(heap[a].kids[i]) :
              i \in {j \in 1..Len(heap[a].kids) : LinkNode(heap[a].kids[j], linkType)}} :
           a \in ReachedIn(heap, {1}, Len(heap))}

\* C34: deepExtractLinks on a value with a reference cycle returns, with
\* the ids of the links the value holds in out, and does not throw.
CyclesTolerated ==
    (xHeap # <<>> /\ HasCycle(xHeap)) =>
        /\ ~xThrown
        /\ Range(xOut.entryIds) = LinksHeld(xHeap, "Entry")
        /\ Range(xOut.assetIds) = LinksHeld(xHeap, "Asset")

====
